---------------------------- MODULE Spec2Model ----------------------------
(***************************************************************************)
(* Model of the geometric core of the form processor: overlap ratios, the  *)
(* three greedy deduplicators, the label filter, the label-field matcher,  *)
(* the boundary refiner and the label-text cleanup.                        *)
(*                                                                         *)
(* Numbers.  Python floats are modelled by exact integers:                 *)
(*   - an overlap ratio intersection/union is the pair [num, den];         *)
(*     "ratio > t" with t in tenths is 10*num > t*den (den > 0);           *)
(*   - a label-field distance d is stored as dd = (2*d)^2, an integer for  *)
(*     all three branches of the distance; d < 200 is dd < (2*200)^2 and   *)
(*     d1 < d2 is dd1 < dd2, because d >= 0;                               *)
(*   - a FieldBox confidence c in [0,1] is stored as 100*c, and a record   *)
(*     confidence label.confidence / 100 as label.confidence.              *)
(* Strings are sequences of one-character strings.                         *)
(***************************************************************************)
EXTENDS Integers, Sequences, FiniteSets, TLC

VARIABLES
    pc,                 \* position in the run of the specification at hand
    boxA, boxB,         \* two boxes handed to the overlap functions
    overlaps,           \* what the three overlap functions returned for them
    fields,             \* List[FieldBox] handed to _remove_overlapping_fields
    overlap_threshold,  \* its overlap_threshold argument, in tenths
    filtered,           \* its result
    dup_in,             \* List[Dict] handed to _remove_duplicate_fields
    unique_fields,      \* its result
    unique_boxes,       \* result of remove_overlapping_boxes on the same boxes
    rerun,              \* results of the three deduplicators on their own output
    text,               \* raw label text handed to _clean_label_text
    cleaned,            \* its result
    recleaned,          \* _clean_label_text of that result
    ocr_boxes,          \* List[TextBox] handed to match_labels_to_fields
    text_fields,        \* List[FieldBox], field_type 'text'
    checkboxes,         \* List[FieldBox], field_type 'checkbox'
    label_candidates,   \* the filtered, sorted labels
    next_label,         \* index of the label the matching loop handles next
    used_fields,        \* ids of the fields already paired
    matched_pairs,      \* List[LabelFieldPair]
    image_shape,        \* <<height, width>> of the page raster
    snapped,            \* the bbox _snap_to_content returned for each pair
    refined_fields,     \* what refine_boxes returned
    ocr_data,           \* the rows pytesseract.image_to_data returned to run_ocr
    pdf_exists,         \* main: pdf_path.exists()
    docai_exists,       \* main: docai_path.exists()
    debug,              \* main: the --debug flag
    stages,             \* main: the pipeline stages called so far, in call order
    paired_fields,      \* main: what match_labels_to_fields returned to it
    cli_refined,        \* main: what refine_boxes returned to it
    output_file,        \* main: content of the output file, <<>> while not written
    console,            \* main: the messages printed, in order
    exit_status,        \* main: <<>> while running, then <<status>>
    snap_field,         \* the FieldBox handed to _snap_to_content on its own
    roi_content,        \* what the raster holds in that field's region
    refined_bbox,       \* what _snap_to_content returned for it
    endpoint,           \* server: the route of the request at hand
    upload,             \* server: the request's files and what handling them meets
    temp_files,         \* server: the temporary files that exist
    pending,            \* server: what leaves the inner try block, <<>> if nothing
    response            \* server: <<>> while handling, then <<status code>>

overlapVars == <<boxA, boxB, overlaps>>
dedupVars == <<fields, overlap_threshold, filtered, dup_in, unique_fields,
               unique_boxes, rerun>>
cleanVars == <<text, cleaned, recleaned>>
matchVars == <<ocr_boxes, text_fields, checkboxes, label_candidates, next_label,
               used_fields, matched_pairs>>
refineVars == <<image_shape, snapped, refined_fields>>
ocrVars == <<ocr_data>>
cliVars == <<pdf_exists, docai_exists, debug, stages, paired_fields, cli_refined,
             output_file, console, exit_status>>
snapVars == <<snap_field, roi_content, refined_bbox>>
serverVars == <<endpoint, upload, temp_files, pending, response>>
vars == <<pc, overlapVars, dedupVars, cleanVars, matchVars, refineVars, ocrVars,
          cliVars, snapVars, serverVars>>

Max(a, b) == IF a >= b THEN a ELSE b
Min(a, b) == IF a <= b THEN a ELSE b
Abs(a) == IF a >= 0 THEN a ELSE -a

(***************************************************************************)
(* Boxes.  A FieldBox / TextBox carries bbox = <<x, y, width, height>>.    *)
(***************************************************************************)
X(b) == b.bbox[1]
Y(b) == b.bbox[2]
Width(b) == b.bbox[3]
Height(b) == b.bbox[4]
X2(b) == X(b) + Width(b)
Y2(b) == Y(b) + Height(b)
Area(b) == Width(b) * Height(b)
\* center uses Python's floor division
Center(b) == <<X(b) + (Width(b) \div 2), Y(b) + (Height(b) \div 2)>>

\* the final record's bbox [x1, y1, x2, y2] of a box
Corners(b) == <<X(b), Y(b), X2(b), Y2(b)>>
\* the server's box dictionary of a box
AsDict(b) == [x |-> X(b), y |-> Y(b), width |-> Width(b), height |-> Height(b),
              area |-> Width(b) * Height(b)]

(***************************************************************************)
(* Overlap ratios, one operator per implementation.                        *)
(***************************************************************************)
ZeroRatio == [num |-> 0, den |-> 1]

\* ratio > t/10, as the float comparison decides it
RatioAbove(r, t) ==
    IF r.den > 0 THEN 10 * r.num > t * r.den ELSE 10 * r.num < t * r.den

RatioEq(r, s) == r.num * s.den = s.num * r.den

\* detect_fields._calculate_overlap_ratio with the union built from field1 alone
OverlapRatioOneSidedUnion(field1, field2) ==
    LET x1 == Max(X(field1), X(field2))
        y1 == Max(Y(field1), Y(field2))
        x2 == Min(X2(field1), X2(field2))
        y2 == Min(Y2(field1), Y2(field2))
        intersection_area == (x2 - x1) * (y2 - y1)
    IN  IF x1 >= x2 \/ y1 >= y2 THEN ZeroRatio
        ELSE IF Area(field1) = 0 THEN ZeroRatio
        ELSE [num |-> intersection_area, den |-> Area(field1)]

_calculate_overlap_ratio(field1, field2) ==
    LET x1 == Max(X(field1), X(field2))
        y1 == Max(Y(field1), Y(field2))
        x2 == Min(X2(field1), X2(field2))
        y2 == Min(Y2(field1), Y2(field2))
        intersection_area == (x2 - x1) * (y2 - y1)
        union_area == Area(field1) + Area(field2) - intersection_area
    IN  IF x1 >= x2 \/ y1 >= y2 THEN ZeroRatio
        ELSE IF union_area = 0 THEN ZeroRatio
        ELSE [num |-> intersection_area, den |-> union_area]

_calculate_bbox_overlap(bbox1, bbox2) ==
    LET x1 == Max(bbox1[1], bbox2[1])
        y1 == Max(bbox1[2], bbox2[2])
        x2 == Min(bbox1[3], bbox2[3])
        y2 == Min(bbox1[4], bbox2[4])
        intersection_area == (x2 - x1) * (y2 - y1)
        area1 == (bbox1[3] - bbox1[1]) * (bbox1[4] - bbox1[2])
        area2 == (bbox2[3] - bbox2[1]) * (bbox2[4] - bbox2[2])
        union_area == area1 + area2 - intersection_area
    IN  IF x1 >= x2 \/ y1 >= y2 THEN ZeroRatio
        ELSE IF union_area = 0 THEN ZeroRatio
        ELSE [num |-> intersection_area, den |-> union_area]

calculate_overlap(box1, box2) ==
    LET x1_max == box1.x + box1.width
        y1_max == box1.y + box1.height
        x2_max == box2.x + box2.width
        y2_max == box2.y + box2.height
        x_overlap == Max(0, Min(x1_max, x2_max) - Max(box1.x, box2.x))
        y_overlap == Max(0, Min(y1_max, y2_max) - Max(box1.y, box2.y))
        intersection == x_overlap * y_overlap
        area1 == box1.width * box1.height
        area2 == box2.width * box2.height
        union == area1 + area2 - intersection
    IN  IF x_overlap = 0 \/ y_overlap = 0 THEN ZeroRatio
        ELSE IF union > 0 THEN [num |-> intersection, den |-> union]
        ELSE ZeroRatio

(***************************************************************************)
(* Python's list.sort / sorted: a stable sort.  keys[i] is the key of the  *)
(* i-th element; with reverse=True equal keys keep their input order too.  *)
(***************************************************************************)
RankDescending(keys, i) ==
    1 + Cardinality({ j \in 1..Len(keys) :
                        keys[j] > keys[i] \/ (keys[j] = keys[i] /\ j < i) })

RankAscending(keys, i) ==
    1 + Cardinality({ j \in 1..Len(keys) :
                        keys[j] < keys[i] \/ (keys[j] = keys[i] /\ j < i) })

SortedDescending(s, keys) ==
    [r \in 1..Len(s) |-> s[CHOOSE i \in 1..Len(s) : RankDescending(keys, i) = r]]

SortedAscending(s, keys) ==
    [r \in 1..Len(s) |-> s[CHOOSE i \in 1..Len(s) : RankAscending(keys, i) = r]]

Confidences(s) == [i \in 1..Len(s) |-> s[i].confidence]

\* fields.sort(key=lambda f: f.confidence, reverse=True)
SortByConfidence(s) == SortedDescending(s, Confidences(s))

(***************************************************************************)
(* The three deduplicators.                                                *)
(***************************************************************************)
DefaultOverlapThreshold == 7
CheckboxOverlapThreshold == 5
DuplicateOverlap == 5
ServerOverlap == 3

RECURSIVE FilterLoop(_, _, _, _)
FilterLoop(sorted, threshold, i, accepted) ==
    IF i > Len(sorted) THEN accepted
    ELSE LET field == sorted[i]
             is_duplicate ==
                 \E j \in 1..Len(accepted) :
                     RatioAbove(_calculate_overlap_ratio(field, accepted[j]), threshold)
         IN  FilterLoop(sorted, threshold, i + 1,
                        IF is_duplicate THEN accepted ELSE Append(accepted, field))

\* the loop with each field compared with its predecessor in the sorted list only
RECURSIVE FilterLoopPrevious(_, _, _, _)
FilterLoopPrevious(sorted, threshold, i, accepted) ==
    IF i > Len(sorted) THEN accepted
    ELSE LET field == sorted[i]
             is_duplicate ==
                 /\ i > 1
                 /\ RatioAbove(_calculate_overlap_ratio(field, sorted[i - 1]), threshold)
         IN  FilterLoopPrevious(sorted, threshold, i + 1,
                                IF is_duplicate THEN accepted ELSE Append(accepted, field))

RemoveOverlappingPrevious(fs, threshold) ==
    IF fs = <<>> THEN <<>>
    ELSE FilterLoopPrevious(SortByConfidence(fs), threshold, 1, <<>>)

\* the loop with each field compared with the last accepted field only
RECURSIVE FilterLoopLast(_, _, _, _)
FilterLoopLast(sorted, threshold, i, accepted) ==
    IF i > Len(sorted) THEN accepted
    ELSE LET field == sorted[i]
             is_duplicate ==
                 /\ accepted # <<>>
                 /\ RatioAbove(_calculate_overlap_ratio(field, accepted[Len(accepted)]),
                               threshold)
         IN  FilterLoopLast(sorted, threshold, i + 1,
                            IF is_duplicate THEN accepted ELSE Append(accepted, field))

RemoveOverlappingLast(fs, threshold) ==
    IF fs = <<>> THEN <<>>
    ELSE FilterLoopLast(SortByConfidence(fs), threshold, 1, <<>>)

\* the deduplicator with the confidence sort ascending
RemoveOverlappingAscending(fs, threshold) ==
    IF fs = <<>> THEN <<>>
    ELSE FilterLoop(SortedAscending(fs, Confidences(fs)), threshold, 1, <<>>)

_remove_overlapping_fields(fs, threshold) ==
    IF fs = <<>> THEN <<>>
    ELSE FilterLoop(SortByConfidence(fs), threshold, 1, <<>>)

RECURSIVE UniqueFieldsLoop(_, _, _)
UniqueFieldsLoop(sorted, i, unique) ==
    IF i > Len(sorted) THEN unique
    ELSE LET field == sorted[i]
             is_duplicate ==
                 \E j \in 1..Len(unique) :
                     RatioAbove(_calculate_bbox_overlap(field.bbox, unique[j].bbox),
                                DuplicateOverlap)
         IN  UniqueFieldsLoop(sorted, i + 1,
                              IF is_duplicate THEN unique ELSE Append(unique, field))

\* the deduplicator of the records with the confidence sort ascending
RemoveDuplicateFieldsAscending(fs) ==
    IF fs = <<>> THEN <<>>
    ELSE UniqueFieldsLoop(SortedAscending(fs, Confidences(fs)), 1, <<>>)

_remove_duplicate_fields(fs) ==
    IF fs = <<>> THEN <<>>
    ELSE UniqueFieldsLoop(SortByConfidence(fs), 1, <<>>)

RECURSIVE UniqueBoxesLoop(_, _, _)
UniqueBoxesLoop(sorted_boxes, i, unique) ==
    IF i > Len(sorted_boxes) THEN unique
    ELSE LET box == sorted_boxes[i]
             is_duplicate ==
                 \E j \in 1..Len(unique) :
                     RatioAbove(calculate_overlap(box, unique[j]), ServerOverlap)
         IN  UniqueBoxesLoop(sorted_boxes, i + 1,
                             IF is_duplicate THEN unique ELSE Append(unique, box))

remove_overlapping_boxes(boxes) ==
    IF boxes = <<>> THEN <<>>
    ELSE UniqueBoxesLoop(SortedDescending(boxes, [i \in 1..Len(boxes) |-> boxes[i].area]),
                         1, <<>>)

(***************************************************************************)
(* Specification SpecOverlap: two boxes, then the three overlap functions  *)
(* applied to (A,B), (B,A) and (A,A).                                      *)
(***************************************************************************)
MaxCoord == 2
MaxSide == 2

GridBoxes == { [bbox |-> <<x, y, w, h>>] :
                 x \in 0..MaxCoord, y \in 0..MaxCoord,
                 w \in 0..MaxSide, h \in 0..MaxSide }

NoDedup == /\ fields = <<>> /\ overlap_threshold = 7 /\ filtered = <<>>
           /\ dup_in = <<>> /\ unique_fields = <<>> /\ unique_boxes = <<>>
           /\ rerun = <<>>

NoClean == text = <<>> /\ cleaned = <<>> /\ recleaned = <<>>

NoMatch == /\ ocr_boxes = <<>> /\ text_fields = <<>> /\ checkboxes = <<>>
           /\ label_candidates = <<>> /\ next_label = 0 /\ used_fields = {}
           /\ matched_pairs = <<>>

NoRefine == image_shape = <<0, 0>> /\ snapped = <<>> /\ refined_fields = <<>>

NoOcr == ocr_data = <<>>

NoSnap == snap_field = <<>> /\ roi_content = <<>> /\ refined_bbox = <<>>

NoServer == /\ endpoint = "" /\ upload = <<>> /\ temp_files = {}
            /\ pending = <<>> /\ response = <<>>

NoCli == /\ pdf_exists = FALSE /\ docai_exists = FALSE /\ debug = FALSE
         /\ stages = <<>> /\ paired_fields = <<>> /\ cli_refined = <<>>
         /\ output_file = <<>> /\ console = <<>> /\ exit_status = <<>>

InitOverlap ==
    /\ pc = "boxes"
    /\ boxA \in GridBoxes
    /\ boxB \in GridBoxes
    /\ overlaps = <<>>
    /\ NoDedup /\ NoClean /\ NoMatch /\ NoRefine /\ NoOcr /\ NoCli /\ NoSnap /\ NoServer

ComputeOverlaps ==
    /\ pc = "boxes"
    /\ pc' = "overlaps"
    /\ overlaps' =
         [fieldbox |-> [ab |-> _calculate_overlap_ratio(boxA, boxB),
                        ba |-> _calculate_overlap_ratio(boxB, boxA),
                        aa |-> _calculate_overlap_ratio(boxA, boxA)],
          bbox     |-> [ab |-> _calculate_bbox_overlap(Corners(boxA), Corners(boxB)),
                        ba |-> _calculate_bbox_overlap(Corners(boxB), Corners(boxA)),
                        aa |-> _calculate_bbox_overlap(Corners(boxA), Corners(boxA))],
          dict     |-> [ab |-> calculate_overlap(AsDict(boxA), AsDict(boxB)),
                        ba |-> calculate_overlap(AsDict(boxB), AsDict(boxA)),
                        aa |-> calculate_overlap(AsDict(boxA), AsDict(boxA))]]
    /\ UNCHANGED <<boxA, boxB, dedupVars, cleanVars, matchVars, refineVars, ocrVars,
                   cliVars, snapVars, serverVars>>

NextOverlap == ComputeOverlaps

SpecOverlap == InitOverlap /\ [][NextOverlap]_vars

Positive(b) == Width(b) > 0 /\ Height(b) > 0

\* the two boxes share interior points (touching on an edge is not intersecting)
Intersect(a, b) ==
    /\ Max(X(a), X(b)) < Min(X2(a), X2(b))
    /\ Max(Y(a), Y(b)) < Min(Y2(a), Y2(b))

Impls == {"fieldbox", "bbox", "dict"}

\* C6: for boxes A, B of positive width and height each of the three overlap
\* functions is symmetric, returns 0 when A and B do not intersect (edge
\* contact included) and returns 1 on (A, A).
C6_OverlapSymmetricZeroOne ==
    (pc = "overlaps" /\ Positive(boxA) /\ Positive(boxB)) =>
        \A i \in Impls :
            /\ overlaps[i].ab = overlaps[i].ba
            /\ (~Intersect(boxA, boxB)) => RatioEq(overlaps[i].ab, ZeroRatio)
            /\ overlaps[i].aa.num = overlaps[i].aa.den

\* two positive boxes that touch on an edge (ratio 0), after the functions ran
C6_Witness ==
    /\ pc = "overlaps" /\ Positive(boxA) /\ Positive(boxB)
    /\ X2(boxA) = X(boxB) /\ Y(boxA) = Y(boxB)
    /\ overlaps["fieldbox"].ab = ZeroRatio
    /\ overlaps["dict"].aa.num = overlaps["dict"].aa.den

(***************************************************************************)
(* Specification SpecDedup: a list of same-kind detections goes through    *)
(* _remove_overlapping_fields (with the threshold its caller passes),      *)
(* _remove_duplicate_fields (as final records) and                         *)
(* remove_overlapping_boxes (as server boxes); then each deduplicator runs *)
(* on its own output.                                                      *)
(***************************************************************************)
MaxDedup == 3

DedupBoxes == { <<0, 0, 10, 10>>, <<4, 0, 6, 10>>, <<0, 0, 8, 10>>,
                <<0, 0, 7, 10>>, <<0, 0, 5, 10>> }
DedupConfidences == {60, 90}

NoOverlap == boxA = <<>> /\ boxB = <<>> /\ overlaps = <<>>

\* detect_text_fields passes no threshold, detect_checkboxes passes 0.5
CallerThreshold(field_type) ==
    IF field_type = "checkbox" THEN CheckboxOverlapThreshold
    ELSE DefaultOverlapThreshold

\* the final record of a detection, as refine_boxes builds it
AsRecord(f) == [id |-> f.id, name |-> <<>>, type |-> f.field_type,
                bbox |-> Corners(f), confidence |-> f.confidence]

\* the server's box of a detection
AsBox(f) == ("id" :> f.id) @@ AsDict(f)

InitDedup ==
    /\ pc = "detect_fields"
    /\ \E n \in 0..MaxDedup, t \in {"text", "checkbox"} :
         \E bb \in [1..n -> DedupBoxes], cc \in [1..n -> DedupConfidences] :
            /\ fields = [i \in 1..n |-> [id |-> i, bbox |-> bb[i],
                                         field_type |-> t, confidence |-> cc[i]]]
            /\ overlap_threshold = CallerThreshold(t)
    /\ dup_in = [i \in 1..Len(fields) |-> AsRecord(fields[i])]
    /\ filtered = <<>>
    /\ unique_fields = <<>>
    /\ unique_boxes = <<>>
    /\ rerun = [filtered |-> <<>>, unique_fields |-> <<>>, unique_boxes |-> <<>>]
    /\ NoOverlap /\ NoClean /\ NoMatch /\ NoRefine /\ NoOcr /\ NoCli /\ NoSnap /\ NoServer

\* list.sort in place; "if not fields: return []" leaves an empty list alone
SortedInPlace(s) == IF s = <<>> THEN s ELSE SortByConfidence(s)

RemoveOverlappingFields ==
    \/ /\ pc = "detect_fields"
       /\ pc' = "refine"
       /\ filtered' = _remove_overlapping_fields(fields, overlap_threshold)
       /\ fields' = SortedInPlace(fields)
       /\ UNCHANGED <<overlap_threshold, dup_in, unique_fields, unique_boxes, rerun>>
    \/ /\ pc = "detect_fields_again"
       /\ pc' = "refine_again"
       /\ rerun' = [rerun EXCEPT
                      !.filtered = _remove_overlapping_fields(filtered, overlap_threshold)]
       /\ filtered' = SortedInPlace(filtered)
       /\ UNCHANGED <<fields, overlap_threshold, dup_in, unique_fields, unique_boxes>>

RemoveDuplicateFields ==
    \/ /\ pc = "refine"
       /\ pc' = "server"
       /\ unique_fields' = _remove_duplicate_fields(dup_in)
       /\ dup_in' = SortedInPlace(dup_in)
       /\ UNCHANGED <<fields, overlap_threshold, filtered, unique_boxes, rerun>>
    \/ /\ pc = "refine_again"
       /\ pc' = "server_again"
       /\ rerun' = [rerun EXCEPT !.unique_fields = _remove_duplicate_fields(unique_fields)]
       /\ unique_fields' = SortedInPlace(unique_fields)
       /\ UNCHANGED <<fields, overlap_threshold, filtered, dup_in, unique_boxes>>

RemoveOverlappingBoxes ==
    \/ /\ pc = "server"
       /\ pc' = "detect_fields_again"
       /\ unique_boxes' =
            remove_overlapping_boxes([i \in 1..Len(fields) |-> AsBox(fields[i])])
       /\ UNCHANGED <<fields, overlap_threshold, filtered, dup_in, unique_fields, rerun>>
    \/ /\ pc = "server_again"
       /\ pc' = "deduped"
       /\ rerun' = [rerun EXCEPT !.unique_boxes = remove_overlapping_boxes(unique_boxes)]
       /\ UNCHANGED <<fields, overlap_threshold, filtered, dup_in, unique_fields,
                      unique_boxes>>

notDedupVars == <<overlapVars, cleanVars, matchVars, refineVars, ocrVars, cliVars,
                   snapVars, serverVars>>

NextDedup ==
    \/ RemoveOverlappingFields /\ UNCHANGED notDedupVars
    \/ RemoveDuplicateFields /\ UNCHANGED notDedupVars
    \/ RemoveOverlappingBoxes /\ UNCHANGED notDedupVars

SpecDedup == InitDedup /\ [][NextDedup]_vars

Range(s) == { s[i] : i \in 1..Len(s) }
Ids(s) == { s[i].id : i \in 1..Len(s) }

\* intersection over union of two rectangles <<x1, y1, x2, y2>>
IoU(p, q) ==
    LET iw == Max(0, Min(p[3], q[3]) - Max(p[1], q[1]))
        ih == Max(0, Min(p[4], q[4]) - Max(p[2], q[2]))
        a1 == (p[3] - p[1]) * (p[4] - p[2])
        a2 == (q[3] - q[1]) * (q[4] - q[2])
    IN  [num |-> iw * ih, den |-> a1 + a2 - iw * ih]

BoxCorners(d) == <<d.x, d.y, d.x + d.width, d.y + d.height>>

\* C3: _remove_overlapping_fields and _remove_duplicate_fields, applied to
\* their own output, return the same set of boxes.
C3_DedupIdempotent ==
    pc = "deduped" =>
        /\ Range(rerun.filtered) = Range(filtered)
        /\ Range(rerun.unique_fields) = Range(unique_fields)

\* both passes done on a list that lost a box and kept two
C3_Witness ==
    /\ pc = "deduped"
    /\ Len(filtered) >= 2 /\ Len(filtered) < Len(fields)
    /\ Len(unique_fields) >= 2 /\ Len(unique_fields) < Len(dup_in)
    /\ Range(rerun.filtered) = Range(filtered)

\* C4: no two distinct boxes of a deduplicator's output overlap with a
\* ratio strictly above the threshold in force (0.7 or 0.5 as the caller of
\* _remove_overlapping_fields passes it, 0.3 in remove_overlapping_boxes).
C4_NoOverlapAboveThreshold ==
    /\ \A i, j \in 1..Len(filtered) :
          i # j => ~RatioAbove(IoU(Corners(filtered[i]), Corners(filtered[j])),
                               overlap_threshold)
    /\ \A i, j \in 1..Len(unique_boxes) :
          i # j => ~RatioAbove(IoU(BoxCorners(unique_boxes[i]),
                                   BoxCorners(unique_boxes[j])), 3)
    /\ (\E i \in 1..Len(fields) : fields[i].field_type = "checkbox")
          => overlap_threshold = 5
    /\ (\E i \in 1..Len(fields) : fields[i].field_type = "text")
          => overlap_threshold = 7

\* a box was dropped and two kept boxes overlap exactly at the threshold
C4_Witness ==
    /\ pc = "deduped"
    /\ Len(filtered) < Len(fields)
    /\ \E i, j \in 1..Len(filtered) :
          /\ i # j
          /\ LET r == IoU(Corners(filtered[i]), Corners(filtered[j]))
             IN  10 * r.num = overlap_threshold * r.den
    /\ unique_boxes # <<>> /\ Len(unique_boxes) < Len(fields)

MaxConfidence(s) == CHOOSE c \in { s[i].confidence : i \in 1..Len(s) } :
                        \A i \in 1..Len(s) : s[i].confidence <= c

\* C5: after _remove_overlapping_fields (and _remove_duplicate_fields) a box
\* of maximal input confidence is in the output, and every dropped box
\* overlaps, above the threshold, a kept box of confidence >= its own.
C5_KeepsHighestConfidence ==
    /\ (pc # "detect_fields" /\ fields # <<>>) =>
          /\ \E k \in 1..Len(filtered) : filtered[k].confidence = MaxConfidence(fields)
          /\ \A i \in 1..Len(fields) :
                fields[i].id \notin Ids(filtered) =>
                    \E k \in 1..Len(filtered) :
                        /\ filtered[k].confidence >= fields[i].confidence
                        /\ RatioAbove(IoU(Corners(fields[i]), Corners(filtered[k])),
                                      overlap_threshold)
    /\ (pc \notin {"detect_fields", "refine"} /\ dup_in # <<>>) =>
          /\ \E k \in 1..Len(unique_fields) :
                unique_fields[k].confidence = MaxConfidence(dup_in)
          /\ \A i \in 1..Len(dup_in) :
                dup_in[i].id \notin Ids(unique_fields) =>
                    \E k \in 1..Len(unique_fields) :
                        /\ unique_fields[k].confidence >= dup_in[i].confidence
                        /\ RatioAbove(IoU(dup_in[i].bbox, unique_fields[k].bbox), 5)

\* two checkbox candidates with overlap 0.8 and confidences 0.9 / 0.6: only
\* the 0.9 one is kept
C5_Witness ==
    /\ pc = "refine"
    /\ Len(fields) = 2 /\ Len(filtered) = 1
    /\ fields[1].field_type = "checkbox"
    /\ {fields[1].confidence, fields[2].confidence} = {60, 90}
    /\ LET r == IoU(Corners(fields[1]), Corners(fields[2])) IN 10 * r.num = 8 * r.den
    /\ filtered[1].confidence = 90

\* C14: a deduplicator leaves the list it is handed as it was: no step of
\* _remove_overlapping_fields or _remove_duplicate_fields changes the
\* elements or the order of the caller's list.
C14_InputsNotMutated == [][fields' = fields /\ dup_in' = dup_in]_vars

RectArea(p) == (p[3] - p[1]) * (p[4] - p[2])

\* boxes i and j of the rectangles rs have an overlap ratio above threshold
\* t, and neither intersects a third box
OverlapOnlyEachOther(rs, i, j, t) ==
    /\ i # j
    /\ RatioAbove(IoU(rs[i], rs[j]), t)
    /\ \A k \in 1..Len(rs) :
          k \notin {i, j} => IoU(rs[i], rs[k]).num = 0 /\ IoU(rs[j], rs[k]).num = 0

\* C23: of two input boxes of equal confidence that overlap above the
\* threshold and overlap no other box, the one with the larger area is the
\* one kept, by _remove_overlapping_fields and by _remove_duplicate_fields.
C23_TiesKeepLargerArea ==
    /\ pc # "detect_fields" =>
          LET rs == [k \in 1..Len(fields) |-> Corners(fields[k])]
          IN  \A i, j \in 1..Len(fields) :
                  (/\ fields[i].confidence = fields[j].confidence
                   /\ OverlapOnlyEachOther(rs, i, j, overlap_threshold)
                   /\ RectArea(rs[i]) > RectArea(rs[j]))
                  => fields[i].id \in Ids(filtered) /\ fields[j].id \notin Ids(filtered)
    /\ pc \notin {"detect_fields", "refine"} =>
          LET rs == [k \in 1..Len(dup_in) |-> dup_in[k].bbox]
          IN  \A i, j \in 1..Len(dup_in) :
                  (/\ dup_in[i].confidence = dup_in[j].confidence
                   /\ OverlapOnlyEachOther(rs, i, j, 5)
                   /\ RectArea(rs[i]) > RectArea(rs[j]))
                  => /\ dup_in[i].id \in Ids(unique_fields)
                     /\ dup_in[j].id \notin Ids(unique_fields)

\* the list s in the order perm, a bijection on its indices
Permuted(s, perm) == [i \in 1..Len(s) |-> s[perm[i]]]

Orderings(n) == { perm \in [1..n -> 1..n] : \A a, b \in 1..n : a # b => perm[a] # perm[b] }

\* the boxes of a list as values: the identity of the objects left out
FieldValues(s) == { <<s[i].bbox, s[i].field_type, s[i].confidence>> : i \in 1..Len(s) }
RecordValues(s) == { <<s[i].bbox, s[i].confidence>> : i \in 1..Len(s) }
BoxValues(s) == { BoxCorners(s[i]) : i \in 1..Len(s) }

\* C24: each deduplicator keeps the same set of boxes for every ordering of
\* its input list.
C24_OrderStable ==
    /\ pc # "detect_fields" =>
          \A perm \in Orderings(Len(fields)) :
              FieldValues(_remove_overlapping_fields(Permuted(fields, perm),
                                                     overlap_threshold))
                = FieldValues(filtered)
    /\ pc \notin {"detect_fields", "refine"} =>
          \A perm \in Orderings(Len(dup_in)) :
              RecordValues(_remove_duplicate_fields(Permuted(dup_in, perm)))
                = RecordValues(unique_fields)
    /\ pc \notin {"detect_fields", "refine", "server"} =>
          \A perm \in Orderings(Len(fields)) :
              BoxValues(remove_overlapping_boxes(
                            Permuted([i \in 1..Len(fields) |-> AsBox(fields[i])], perm)))
                = BoxValues(unique_boxes)

(***************************************************************************)
(* Strings: a text is a sequence of one-character strings.                 *)
(***************************************************************************)
LowerLetters == <<"a", "b", "c", "d", "e", "f", "g", "h", "i", "j", "k", "l", "m",
                  "n", "o", "p", "q", "r", "s", "t", "u", "v", "w", "x", "y", "z">>
UpperLetters == <<"A", "B", "C", "D", "E", "F", "G", "H", "I", "J", "K", "L", "M",
                  "N", "O", "P", "Q", "R", "S", "T", "U", "V", "W", "X", "Y", "Z">>
Digits == {"0", "1", "2", "3", "4", "5", "6", "7", "8", "9"}

UpperChar(c) ==
    IF \E k \in 1..26 : LowerLetters[k] = c
    THEN UpperLetters[CHOOSE k \in 1..26 : LowerLetters[k] = c] ELSE c

LowerChar(c) ==
    IF \E k \in 1..26 : UpperLetters[k] = c
    THEN LowerLetters[CHOOSE k \in 1..26 : UpperLetters[k] = c] ELSE c

\* str.lower()
Lower(t) == [i \in 1..Len(t) |-> LowerChar(t[i])]

\* word in t
Contains(t, word) ==
    \E i \in 0..(Len(t) - Len(word)) : SubSeq(t, i + 1, i + Len(word)) = word

\* str.isdigit()
IsDigit(t) == t # <<>> /\ \A i \in 1..Len(t) : t[i] \in Digits

IsSpace(c) == c = " "

\* text.split(): the maximal runs of non-whitespace characters
RECURSIVE SplitFrom(_, _, _, _)
SplitFrom(t, i, word, words) ==
    IF i > Len(t) THEN (IF word = <<>> THEN words ELSE Append(words, word))
    ELSE IF IsSpace(t[i])
         THEN SplitFrom(t, i + 1, <<>>, IF word = <<>> THEN words ELSE Append(words, word))
         ELSE SplitFrom(t, i + 1, Append(word, t[i]), words)

Split(t) == SplitFrom(t, 1, <<>>, <<>>)

\* ' '.join(words)
RECURSIVE Join(_)
Join(words) ==
    IF words = <<>> THEN <<>>
    ELSE IF Len(words) = 1 THEN words[1]
    ELSE words[1] \o <<" ">> \o Join(Tail(words))

\* str.rstrip(chars)
RECURSIVE RStrip(_, _)
RStrip(t, chars) ==
    IF t # <<>> /\ t[Len(t)] \in chars THEN RStrip(SubSeq(t, 1, Len(t) - 1), chars)
    ELSE t

TrailingPunctuation == {".", ":", ";", ",", "-"}

_clean_label_text(t) ==
    LET joined == Join(Split(t))
        stripped == RStrip(joined, TrailingPunctuation)
    IN  IF Len(stripped) > 0 THEN <<UpperChar(stripped[1])>> \o Tail(stripped)
        ELSE stripped

(***************************************************************************)
(* Specification SpecClean: a raw text is cleaned, and the result is       *)
(* cleaned again.                                                          *)
(***************************************************************************)
MaxTextLen == 3

CleanAlphabet == {" ", ":", "a", "A"}

InitClean ==
    /\ pc = "text"
    /\ \E n \in 0..MaxTextLen : text \in [1..n -> CleanAlphabet]
    /\ cleaned = <<>>
    /\ recleaned = <<>>
    /\ NoOverlap /\ NoDedup /\ NoMatch /\ NoRefine /\ NoOcr /\ NoCli /\ NoSnap /\ NoServer

CleanLabelText ==
    /\ pc = "text"
    /\ pc' = "cleaned"
    /\ cleaned' = _clean_label_text(text)
    /\ UNCHANGED <<text, recleaned>>

CleanAgain ==
    /\ pc = "cleaned"
    /\ pc' = "recleaned"
    /\ recleaned' = _clean_label_text(cleaned)
    /\ UNCHANGED <<text, cleaned>>

notCleanVars == <<overlapVars, dedupVars, matchVars, refineVars, ocrVars, cliVars,
                   snapVars, serverVars>>

NextClean ==
    \/ CleanLabelText /\ UNCHANGED notCleanVars
    \/ CleanAgain /\ UNCHANGED notCleanVars

SpecClean == InitClean /\ [][NextClean]_vars

\* C9: cleaning an already cleaned label text returns it unchanged,
\* _clean_label_text(_clean_label_text(t)) = _clean_label_text(t).
C9_CleanupIdempotent == pc = "recleaned" => recleaned = cleaned

(***************************************************************************)
(* The label filter (ocr.filter_label_candidates).                         *)
(***************************************************************************)
NoiseWords == { <<"p", "a", "g", "e">>, <<"f", "o", "r", "m">>,
                <<"u", "s", "c", "i", "s">>,
                <<"d", "e", "p", "a", "r", "t", "m", "e", "n", "t">>,
                <<"h", "o", "m", "e", "l", "a", "n", "d">>,
                <<"s", "e", "c", "u", "r", "i", "t", "y">> }

LabelWords == { <<"n", "a", "m", "e">>, <<"a", "d", "d", "r", "e", "s", "s">>,
                <<"d", "a", "t", "e">>, <<"n", "u", "m", "b", "e", "r">>,
                <<"p", "h", "o", "n", "e">>, <<"e", "m", "a", "i", "l">> }

MinLabelLength == 3
LongLabelLength == 10

\* the accept condition of lines 210-213
LooksLikeLabel(box) ==
    \/ \E word \in LabelWords : Contains(Lower(box.text), word)
    \/ Contains(box.text, <<":">>)
    \/ (Contains(box.text, <<"(">>) /\ Contains(box.text, <<")">>))
    \/ Len(box.text) > LongLabelLength

\* the loop body without the length and digit rejections of lines 194-200
KeepsLabelNoLengthCheck(box) ==
    /\ ~\E word \in NoiseWords : Contains(Lower(box.text), word)
    /\ LooksLikeLabel(box)

\* the loop body with the accept condition tried before the noise rejection
KeepsLabelAcceptFirst(box) ==
    /\ ~(Len(box.text) < MinLabelLength)
    /\ ~IsDigit(box.text)
    /\ LooksLikeLabel(box)

\* one pass of the loop body: TRUE when the box is appended to labels
KeepsLabel(box) ==
    /\ ~(Len(box.text) < MinLabelLength)
    /\ ~IsDigit(box.text)
    /\ ~\E word \in NoiseWords : Contains(Lower(box.text), word)
    /\ LooksLikeLabel(box)

filter_label_candidates(text_boxes) == SelectSeq(text_boxes, KeepsLabel)

(***************************************************************************)
(* The matcher (associate.py).  A distance d is carried as (2*d)^2.        *)
(***************************************************************************)
_has_vertical_overlap(label, field) == ~(Y2(label) < Y(field) \/ Y2(field) < Y(label))

_has_horizontal_overlap(label, field) == ~(X2(label) < X(field) \/ X2(field) < X(label))

Square(n) == n * n

_calculate_label_field_distance(label, field) ==
    IF X2(label) <= X(field) /\ _has_vertical_overlap(label, field)
    THEN LET horizontal_gap == X(field) - X2(label)
             vertical_center_diff == Abs(Center(label)[2] - Center(field)[2])
         IN  Square(2 * horizontal_gap + vertical_center_diff)
    ELSE IF Y2(label) <= Y(field) /\ _has_horizontal_overlap(label, field)
    THEN LET vertical_gap == Y(field) - Y2(label)
             horizontal_center_diff == Abs(Center(label)[1] - Center(field)[1])
         IN  Square(2 * vertical_gap + horizontal_center_diff)
    ELSE LET dx == Center(label)[1] - Center(field)[1]
             dy == Center(label)[2] - Center(field)[2]
         IN  4 * (dx * dx + dy * dy)

\* a distance in pixels, in the unit of _calculate_label_field_distance
Pixels(d) == Square(2 * d)

CheckboxWords == { <<"c", "h", "e", "c", "k">>, <<"s", "e", "l", "e", "c", "t">>,
                   <<"m", "a", "r", "k">>, <<"y", "e", "s">>, <<"n", "o">>,
                   <<"r", "e", "q", "u", "e", "s", "t", "e", "d">>,
                   <<"a", "p", "p", "l", "i", "c", "a", "b", "l", "e">>,
                   <<"p", "r", "e", "m", "i", "u", "m">>,
                   <<"p", "r", "o", "c", "e", "s", "s", "i", "n", "g">>,
                   <<"e", "x", "p", "e", "d", "i", "t", "e">>,
                   <<"p", "r", "i", "o", "r", "i", "t", "y">> }

ShortCaptionLength == 20
max_distance == 300
MaxReasonableDistance == 200

\* the validity test without the checkbox rule of lines 139-148
ValidPairingAnyCaption(label, field) ==
    _calculate_label_field_distance(label, field) <= Pixels(max_distance)

\* the validity test with the gate of line 160 at 100 pixels
ValidPairingTightGate(label, field) ==
    IF /\ field.field_type = "checkbox"
       /\ ~\E keyword \in CheckboxWords : Contains(Lower(label.text), keyword)
       /\ Len(label.text) > ShortCaptionLength
    THEN FALSE
    ELSE _calculate_label_field_distance(label, field) <= Pixels(100)

_is_valid_pairing(label, field) ==
    IF /\ field.field_type = "checkbox"
       /\ ~\E keyword \in CheckboxWords : Contains(Lower(label.text), keyword)
       /\ Len(label.text) > ShortCaptionLength
    THEN FALSE
    ELSE _calculate_label_field_distance(label, field) <= Pixels(max_distance)

NoField == [id |-> 0]

\* the inner loop of lines 63-73; best = [field, distance], best_distance
\* = inf while best_field is None
RECURSIVE BestFieldLoop(_, _, _, _, _)
BestFieldLoop(label, all_fields, used, i, best) ==
    IF i > Len(all_fields) THEN best
    ELSE LET field == all_fields[i]
             distance == _calculate_label_field_distance(label, field)
         IN  IF field.id \in used THEN BestFieldLoop(label, all_fields, used, i + 1, best)
             ELSE IF /\ _is_valid_pairing(label, field)
                     /\ (best.field = NoField \/ distance < best.distance)
             THEN BestFieldLoop(label, all_fields, used, i + 1,
                                [field |-> field, distance |-> distance])
             ELSE BestFieldLoop(label, all_fields, used, i + 1, best)

\* the matcher with used_fields never consulted
BestFieldIgnoringUsed(label, all_fields, used) ==
    BestFieldLoop(label, all_fields, {}, 1, [field |-> NoField, distance |-> 0])

\* the matcher taking the first unused valid field instead of the nearest
BestFieldFirstValid(label, all_fields, used) ==
    LET open == { i \in 1..Len(all_fields) :
                    /\ all_fields[i].id \notin used
                    /\ _is_valid_pairing(label, all_fields[i]) }
    IN  IF open = {} THEN [field |-> NoField, distance |-> 0]
        ELSE LET first == CHOOSE i \in open : \A j \in open : i <= j
             IN  [field |-> all_fields[first],
                  distance |-> _calculate_label_field_distance(label, all_fields[first])]

\* the inner loop with "distance <= best_distance" at line 71
RECURSIVE BestFieldLoopLastOfTies(_, _, _, _, _)
BestFieldLoopLastOfTies(label, all_fields, used, i, best) ==
    IF i > Len(all_fields) THEN best
    ELSE LET field == all_fields[i]
             distance == _calculate_label_field_distance(label, field)
         IN  IF field.id \in used
             THEN BestFieldLoopLastOfTies(label, all_fields, used, i + 1, best)
             ELSE IF /\ _is_valid_pairing(label, field)
                     /\ (best.field = NoField \/ distance <= best.distance)
             THEN BestFieldLoopLastOfTies(label, all_fields, used, i + 1,
                                          [field |-> field, distance |-> distance])
             ELSE BestFieldLoopLastOfTies(label, all_fields, used, i + 1, best)

\* the matcher keeping the last of the nearest fields instead of the first
BestFieldLastOfTies(label, all_fields, used) ==
    BestFieldLoopLastOfTies(label, all_fields, used, 1,
                            [field |-> NoField, distance |-> 0])

BestField(label, all_fields, used) ==
    BestFieldLoop(label, all_fields, used, 1, [field |-> NoField, distance |-> 0])

\* line 76 without the cutoff
CommitsAnyDistance(best) == best.field # NoField

\* line 76: best_field and best_distance < 200
Commits(best) == best.field # NoField /\ best.distance < Pixels(MaxReasonableDistance)

\* label_candidates.sort(key=lambda label: (label.y, label.x))
RankReading(s, i) ==
    1 + Cardinality({ j \in 1..Len(s) :
                        \/ s[j][1] < s[i][1]
                        \/ (s[j][1] = s[i][1] /\ s[j][2] < s[i][2])
                        \/ (s[j] = s[i] /\ j < i) })

SortedReading(s, keys) ==
    [r \in 1..Len(s) |-> s[CHOOSE i \in 1..Len(s) : RankReading(keys, i) = r]]

\* match_labels_to_fields without the sort of line 57
LabelsUnsorted(labels) == labels

SortLabels(labels) ==
    SortedReading(labels, [i \in 1..Len(labels) |-> <<Y(labels[i]), X(labels[i])>>])

(***************************************************************************)
(* OCR (ocr.run_ocr).  A row of pytesseract's table is [id, text, conf,    *)
(* left, top, width, height]; id is the row's index.                       *)
(***************************************************************************)
min_confidence == 30

\* str.strip()
RECURSIVE LStrip(_, _)
LStrip(t, chars) ==
    IF t # <<>> /\ t[1] \in chars THEN LStrip(Tail(t), chars) ELSE t

Strip(t) == LStrip(RStrip(t, {" "}), {" "})

\* not text or text.isspace()
Blank(t) == t = <<>> \/ \A i \in 1..Len(t) : IsSpace(t[i])

\* w > image.shape[1] * 0.8 is 10 * w > 8 * width for integers
TooSmallOrLarge(row, shape) ==
    \/ row.width < 10 \/ row.height < 5
    \/ 10 * row.width > 8 * shape[2] \/ 10 * row.height > shape[1]

\* TextBox(text, (x, y, w, h), confidence)
TextBox(row) == [id |-> row.id, text |-> Strip(row.text),
                 bbox |-> <<row.left, row.top, row.width, row.height>>,
                 confidence |-> row.conf]

\* text_boxes.sort(key=lambda box: (box.y, box.x))
SortTextBoxes(text_boxes) ==
    SortedReading(text_boxes,
                  [i \in 1..Len(text_boxes) |-> <<Y(text_boxes[i]), X(text_boxes[i])>>])

\* the loop body without the confidence test of lines 79-80
KeepsRowAnyConfidence(row, shape) ==
    /\ ~Blank(row.text)
    /\ ~TooSmallOrLarge(row, shape)

\* the loop body without the size test of lines 92-93
KeepsRowAnySize(row, shape) ==
    /\ ~(row.conf < min_confidence)
    /\ ~Blank(row.text)

\* one pass of the loop body: TRUE when the row becomes a text box
KeepsRow(row, shape) ==
    /\ ~(row.conf < min_confidence)
    /\ ~Blank(row.text)
    /\ ~TooSmallOrLarge(row, shape)

run_ocr(data, shape) ==
    LET kept == SelectSeq(data, LAMBDA row : KeepsRow(row, shape))
    IN  SortTextBoxes([i \in 1..Len(kept) |-> TextBox(kept[i])])

(***************************************************************************)
(* The refiner (refine.py).  What the page raster holds inside a field's   *)
(* region is the one input the model leaves open: content is NoContour or  *)
(* the bounding rectangle <<x, y, w, h>> of the contour the snapping step  *)
(* selects, relative to the region.                                        *)
(***************************************************************************)
NoContour == <<>>

\* len(range(n)[start:stop]): a Python slice clamps, and counts a negative
\* index from the end
SliceIndex(i, n) == IF i < 0 THEN Max(i + n, 0) ELSE Min(i, n)
SliceLen(start, stop, n) == Max(0, SliceIndex(stop, n) - SliceIndex(start, n))

\* shape of roi = image[y:y+h, x:x+w], as <<height, width>>
RoiShape(field, shape) ==
    <<SliceLen(Y(field), Y(field) + Height(field), shape[1]),
      SliceLen(X(field), X(field) + Width(field), shape[2])>>

\* the snapping step with text_height = line_h * 3, without the 20 pixel
\* minimum of line 104
SnapTextFieldThinLine(x, y, w, h, content) ==
    IF content = NoContour THEN <<x, y, x + w, y + h>>
    ELSE LET actual_y2 == y + content[2] + content[4]
         IN  <<x + content[1], Max(y, actual_y2 - content[4] * 3),
               x + content[1] + content[3], actual_y2>>

\* the snapping step without the max(y, ...) of line 105
SnapTextFieldNoClamp(x, y, w, h, content) ==
    IF content = NoContour THEN <<x, y, x + w, y + h>>
    ELSE LET actual_y2 == y + content[2] + content[4]
         IN  <<x + content[1], actual_y2 - Max(content[4] * 3, 20),
               x + content[1] + content[3], actual_y2>>

_snap_text_field(x, y, w, h, content) ==
    IF content = NoContour THEN <<x, y, x + w, y + h>>
    ELSE LET line_x == content[1]
             line_y == content[2]
             line_w == content[3]
             line_h == content[4]
             actual_x1 == x + line_x
             actual_x2 == x + line_x + line_w
             actual_y2 == y + line_y + line_h
             text_height == Max(line_h * 3, 20)
             actual_y1 == Max(y, actual_y2 - text_height)
         IN  <<actual_x1, actual_y1, actual_x2, actual_y2>>

_snap_checkbox_field(x, y, w, h, content) ==
    IF content = NoContour THEN <<x, y, x + w, y + h>>
    ELSE LET box_x == content[1]
             box_y == content[2]
             box_w == content[3]
             box_h == content[4]
         IN  <<x + box_x, y + box_y, x + box_x + box_w, y + box_y + box_h>>

_snap_to_content(field, shape, content) ==
    LET x == X(field)
        y == Y(field)
        w == Width(field)
        h == Height(field)
        roi == RoiShape(field, shape)
    IN  IF roi[1] * roi[2] = 0 THEN <<x, y, x + w, y + h>>
        ELSE IF field.field_type = "text" THEN _snap_text_field(x, y, w, h, content)
        ELSE IF field.field_type = "checkbox" THEN _snap_checkbox_field(x, y, w, h, content)
        ELSE <<x, y, x + w, y + h>>

\* _validate_field without the bounds check of lines 155-157
ValidateSizeOnly(bbox, shape) ==
    LET field_width == bbox[3] - bbox[1]
        field_height == bbox[4] - bbox[2]
    IN  /\ ~(field_width < 5 \/ field_height < 5)
        /\ ~(10 * field_width > 9 * shape[2] \/ 10 * field_height > 2 * shape[1])

\* _validate_field without the size checks of lines 159-167
ValidateBoundsOnly(bbox, shape) ==
    ~(bbox[1] < 0 \/ bbox[2] < 0 \/ bbox[3] > shape[2] \/ bbox[4] > shape[1])

\* field_width > width * 0.9 is 10 * field_width > 9 * width for integers
_validate_field(bbox, shape) ==
    LET x1 == bbox[1]
        y1 == bbox[2]
        x2 == bbox[3]
        y2 == bbox[4]
        height == shape[1]
        width == shape[2]
        field_width == x2 - x1
        field_height == y2 - y1
    IN  IF x1 < 0 \/ y1 < 0 \/ x2 > width \/ y2 > height THEN FALSE
        ELSE IF field_width < 5 \/ field_height < 5 THEN FALSE
        ELSE IF 10 * field_width > 9 * width \/ 10 * field_height > 2 * height THEN FALSE
        ELSE TRUE

\* the loop of lines 30-42; boxes[i] is _snap_to_content of pairs[i]
RECURSIVE RefineLoop(_, _, _, _, _)
RefineLoop(pairs, boxes, shape, i, acc) ==
    IF i > Len(pairs) THEN acc
    ELSE IF _validate_field(boxes[i], shape)
    THEN RefineLoop(pairs, boxes, shape, i + 1,
                    Append(acc, [id |-> i,
                                 name |-> _clean_label_text(pairs[i].label.text),
                                 type |-> pairs[i].field.field_type,
                                 bbox |-> boxes[i],
                                 confidence |-> pairs[i].label.confidence]))
    ELSE RefineLoop(pairs, boxes, shape, i + 1, acc)

\* refined_fields.sort(key=lambda f: (f["bbox"][1], f["bbox"][0]))
SortRecords(rs) ==
    SortedReading(rs, [i \in 1..Len(rs) |-> <<rs[i].bbox[2], rs[i].bbox[1]>>])

refine_boxes(pairs, boxes, shape) ==
    SortRecords(_remove_duplicate_fields(RefineLoop(pairs, boxes, shape, 1, <<>>)))

(***************************************************************************)
(* Specification Spec: one page goes through match_labels_to_fields (the   *)
(* label filter, the reading-order sort, one step per label of the         *)
(* matching loop) and then through refine_boxes.                           *)
(***************************************************************************)
MaxLabels == 2
MaxFields == 2

T_Name == <<"N", "a", "m", "e", ":">>
T_Short == <<"A", ":">>
T_Digits == <<"1", "2", "3", "4", "5", "6", "7", "8", "9", "0", "1">>
T_Date == <<"D", "a", "t", "e", ":">>
T_Email == <<"E", "m", "a", "i", "l", ":">>
T_Phone == <<"P", "h", "o", "n", "e", " ", ":">>

\* TextBox(text, bbox, confidence)
LabelCandidates ==
    { [text |-> T_Name, bbox |-> <<10, 100, 80, 15>>, confidence |-> 90],
      [text |-> T_Short, bbox |-> <<60, 100, 20, 15>>, confidence |-> 90],
      [text |-> T_Digits, bbox |-> <<10, 132, 80, 15>>, confidence |-> 85],
      [text |-> T_Date, bbox |-> <<10, 135, 80, 15>>, confidence |-> 80],
      [text |-> T_Email, bbox |-> <<10, 700, 80, 15>>, confidence |-> 90],
      [text |-> T_Phone, bbox |-> <<10, 350, 80, 15>>, confidence |-> 90] }

\* FieldBox(bbox, 'text', confidence): inside the page, reaching over its
\* right edge, wider than 90% of the page
TextFieldCandidates ==
    { [bbox |-> <<100, 95, 200, 25>>, field_type |-> "text", confidence |-> 80],
      [bbox |-> <<100, 130, 200, 25>>, field_type |-> "text", confidence |-> 80],
      [bbox |-> <<100, 95, 520, 25>>, field_type |-> "text", confidence |-> 80],
      [bbox |-> <<10, 200, 580, 25>>, field_type |-> "text", confidence |-> 80] }

CheckboxCandidates ==
    { [bbox |-> <<100, 100, 12, 12>>, field_type |-> "checkbox", confidence |-> 80],
      [bbox |-> <<95, 135, 12, 12>>, field_type |-> "checkbox", confidence |-> 80] }

PageShapes == { <<800, 600>> }

\* the object with its identity
WithId(r, i) == ("id" :> i) @@ r

Init ==
    /\ pc = "match"
    /\ \E n \in 0..MaxLabels : \E ls \in [1..n -> LabelCandidates] :
          ocr_boxes = [i \in 1..n |-> WithId(ls[i], i)]
    /\ \E nt \in 0..MaxFields : \E nc \in 0..(MaxFields - nt) :
          \E ts \in [1..nt -> TextFieldCandidates], cs \in [1..nc -> CheckboxCandidates] :
             /\ text_fields = [i \in 1..nt |-> WithId(ts[i], i)]
             /\ checkboxes = [i \in 1..nc |-> WithId(cs[i], nt + i)]
    /\ image_shape \in PageShapes
    /\ label_candidates = <<>>
    /\ next_label = 0
    /\ used_fields = {}
    /\ matched_pairs = <<>>
    /\ snapped = <<>>
    /\ refined_fields = <<>>
    /\ NoOverlap /\ NoDedup /\ NoClean /\ NoOcr /\ NoCli /\ NoSnap /\ NoServer

\* lines 47-57
StartMatching ==
    /\ pc = "match"
    /\ pc' = "labels"
    /\ label_candidates' = SortLabels(filter_label_candidates(ocr_boxes))
    /\ next_label' = 1
    /\ used_fields' = {}
    /\ matched_pairs' = <<>>
    /\ UNCHANGED <<ocr_boxes, text_fields, checkboxes, refineVars>>

\* lines 59-79, one label
MatchLabel ==
    /\ pc = "labels"
    /\ next_label <= Len(label_candidates)
    /\ LET label == label_candidates[next_label]
           best == BestField(label, text_fields \o checkboxes, used_fields)
       IN  IF Commits(best)
           THEN /\ matched_pairs' = Append(matched_pairs,
                                           [label |-> label, field |-> best.field,
                                            distance |-> best.distance])
                /\ used_fields' = used_fields \cup {best.field.id}
           ELSE UNCHANGED <<matched_pairs, used_fields>>
    /\ next_label' = next_label + 1
    /\ UNCHANGED <<pc, ocr_boxes, text_fields, checkboxes, label_candidates, refineVars>>

\* line 81
ReturnPairs ==
    /\ pc = "labels"
    /\ next_label > Len(label_candidates)
    /\ pc' = "refine"
    /\ UNCHANGED <<matchVars, refineVars>>

\* the contours the snapping step can select in a region of shape <<h, w>>:
\* an underline along its bottom, a small mark, an outline one pixel inside
ContentRects(roi) ==
    { c \in { <<0, roi[1] - 2, roi[2], 2>>, <<0, 0, 3, 3>>,
              <<1, 1, roi[2] - 2, roi[1] - 2>> } :
        /\ c[3] >= 1 /\ c[4] >= 1
        /\ c[1] + c[3] <= roi[2] /\ c[2] + c[4] <= roi[1] }

Contents(field, shape) == {NoContour} \cup ContentRects(RoiShape(field, shape))

AllContents(pairs, shape) ==
    UNION { Contents(pairs[i].field, shape) : i \in 1..Len(pairs) }

\* refine_boxes, whatever the raster holds in each field's region
RefineBoxes ==
    /\ pc = "refine"
    /\ pc' = "done"
    /\ \E content \in [1..Len(matched_pairs) -> AllContents(matched_pairs, image_shape)] :
          /\ \A i \in 1..Len(matched_pairs) :
                content[i] \in Contents(matched_pairs[i].field, image_shape)
          /\ snapped' = [i \in 1..Len(matched_pairs) |->
                           _snap_to_content(matched_pairs[i].field, image_shape, content[i])]
          /\ refined_fields' = refine_boxes(matched_pairs, snapped', image_shape)
    /\ UNCHANGED <<matchVars, image_shape>>

notPipelineVars == <<overlapVars, dedupVars, cleanVars, ocrVars, cliVars, snapVars,
                      serverVars>>

Next ==
    \/ StartMatching /\ UNCHANGED notPipelineVars
    \/ MatchLabel /\ UNCHANGED notPipelineVars
    \/ ReturnPairs /\ UNCHANGED notPipelineVars
    \/ RefineBoxes /\ UNCHANGED notPipelineVars

Spec == Init /\ [][Next]_vars

AllFields == text_fields \o checkboxes
PairedLabelIds == { matched_pairs[i].label.id : i \in 1..Len(matched_pairs) }
PairedFieldIds == { matched_pairs[i].field.id : i \in 1..Len(matched_pairs) }
MatchingDone == pc \in {"refine", "done"}

\* C1: the pairs returned by match_labels_to_fields are one-to-one: no
\* field and no label occurs in two pairs.
C1_OneToOne ==
    \A i, j \in 1..Len(matched_pairs) :
        i # j => /\ matched_pairs[i].field.id # matched_pairs[j].field.id
                 /\ matched_pairs[i].label.id # matched_pairs[j].label.id

\* two pairs, the second label being nearer to the first pair's field than
\* to its own
C1_Witness ==
    /\ MatchingDone
    /\ Len(matched_pairs) = 2
    /\ _calculate_label_field_distance(matched_pairs[2].label, matched_pairs[1].field)
          < matched_pairs[2].distance

\* C2: every returned pair carries the distance of its label and field, and
\* that distance is < 200; a label at 200 or more from every field candidate
\* is in no pair.
C2_DistanceBelowCutoff ==
    /\ \A i \in 1..Len(matched_pairs) :
          /\ matched_pairs[i].distance =
                _calculate_label_field_distance(matched_pairs[i].label,
                                                matched_pairs[i].field)
          /\ matched_pairs[i].distance < 4 * 200 * 200
    /\ \A k \in 1..Len(ocr_boxes) :
          (\A f \in 1..Len(AllFields) :
              _calculate_label_field_distance(ocr_boxes[k], AllFields[f]) >= 4 * 200 * 200)
          => ocr_boxes[k].id \notin PairedLabelIds

\* matching is over; a label that passed the filter has a valid field
\* between 200 and 300 away and none nearer, and is in no pair
C2_Witness ==
    /\ MatchingDone
    /\ \E k \in 1..Len(label_candidates) :
          /\ \E f \in 1..Len(AllFields) :
                /\ _is_valid_pairing(label_candidates[k], AllFields[f])
                /\ AllFields[f].id \notin used_fields
          /\ \A f \in 1..Len(AllFields) :
                _calculate_label_field_distance(label_candidates[k], AllFields[f])
                    >= 4 * 200 * 200
          /\ label_candidates[k].id \notin PairedLabelIds

InsidePage(bbox, shape) ==
    /\ 0 <= bbox[1] /\ 0 <= bbox[2] /\ bbox[3] <= shape[2] /\ bbox[4] <= shape[1]

\* C7: every record returned by refine_boxes has its bbox inside the page.
C7_RefinedInsidePage ==
    \A k \in 1..Len(refined_fields) : InsidePage(refined_fields[k].bbox, image_shape)

\* refine_boxes returned a record, and dropped a pair whose field reaches
\* over the page edge and for which the fallback to the approximate box
\* was taken
C7_Witness ==
    /\ pc = "done"
    /\ refined_fields # <<>>
    /\ \E i \in 1..Len(matched_pairs) :
          /\ snapped[i] = Corners(matched_pairs[i].field)
          /\ ~InsidePage(snapped[i], image_shape)

SizeAccepted(bbox, shape) ==
    /\ 5 <= bbox[3] - bbox[1] /\ 10 * (bbox[3] - bbox[1]) <= 9 * shape[2]
    /\ 5 <= bbox[4] - bbox[2] /\ 10 * (bbox[4] - bbox[2]) <= 2 * shape[1]

\* C8: every record returned by refine_boxes has 5 <= width <= 90% of the
\* page width and 5 <= height <= 20% of the page height, and a pair whose
\* refined bbox breaks one of these limits produces no record, whatever its
\* approximate box is.
C8_RefinedSizeValidated ==
    pc = "done" =>
        /\ \A k \in 1..Len(refined_fields) :
              SizeAccepted(refined_fields[k].bbox, image_shape)
        /\ \A i \in 1..Len(matched_pairs) :
              ~SizeAccepted(snapped[i], image_shape) =>
                  \A k \in 1..Len(refined_fields) : refined_fields[k].id # i

\* a pair whose approximate box passes validation while its refined box is
\* too small: no record; and a pair whose approximate box is wider than 90%
\* of the page or outside it while its refined box is accepted
C8_Witness ==
    /\ pc = "done"
    /\ \E i \in 1..Len(matched_pairs) :
          /\ _validate_field(Corners(matched_pairs[i].field), image_shape)
          /\ ~SizeAccepted(snapped[i], image_shape)
          /\ \A k \in 1..Len(refined_fields) : refined_fields[k].id # i
    /\ \E i \in 1..Len(matched_pairs) :
          /\ ~_validate_field(Corners(matched_pairs[i].field), image_shape)
          /\ \E k \in 1..Len(refined_fields) :
                refined_fields[k].id = i /\ refined_fields[k].bbox = snapped[i]

ShortOrNumeric(box) == Len(box.text) < 3 \/ IsDigit(box.text)

\* C10: a fragment whose text is shorter than 3 characters or all digits is
\* not among the filtered labels and is in no returned pair.
C10_ShortOrNumericNeverPaired ==
    /\ \A k \in 1..Len(label_candidates) : ~ShortOrNumeric(label_candidates[k])
    /\ \A i \in 1..Len(matched_pairs) : ~ShortOrNumeric(matched_pairs[i].label)

\* matching is over and left a field unused that lies within 200 of a short
\* fragment and within 200 of an all-digit fragment
C10_Witness ==
    /\ MatchingDone
    /\ \E a, b \in 1..Len(ocr_boxes), f \in 1..Len(AllFields) :
          /\ Len(ocr_boxes[a].text) < 3
          /\ IsDigit(ocr_boxes[b].text)
          /\ AllFields[f].id \notin used_fields
          /\ _is_valid_pairing(ocr_boxes[a], AllFields[f])
          /\ _is_valid_pairing(ocr_boxes[b], AllFields[f])
          /\ _calculate_label_field_distance(ocr_boxes[a], AllFields[f]) < 4 * 200 * 200
          /\ _calculate_label_field_distance(ocr_boxes[b], AllFields[f]) < 4 * 200 * 200

\* the fields label L can still be paired with: unused and valid for L
OpenFields(L, used) ==
    { f \in 1..Len(AllFields) :
        AllFields[f].id \notin used /\ _is_valid_pairing(L, AllFields[f]) }

\* C18: when the loop handles a label L for which some unused valid field
\* lies at less than 200, it appends a pair for L, and the field of that
\* pair is an unused valid field of minimum distance to L.
C18_PicksNearestUnusedValid ==
    [][(pc = "labels" /\ next_label <= Len(label_candidates)) =>
         LET L == label_candidates[next_label]
             open == OpenFields(L, used_fields)
         IN  (\E f \in open :
                 _calculate_label_field_distance(L, AllFields[f]) < 4 * 200 * 200)
             => /\ Len(matched_pairs') = Len(matched_pairs) + 1
                /\ LET pair == matched_pairs'[Len(matched_pairs')]
                   IN  /\ pair.label = L
                       /\ \E f \in open : AllFields[f] = pair.field
                       /\ \A g \in open :
                             _calculate_label_field_distance(L, pair.field)
                               <= _calculate_label_field_distance(L, AllFields[g])
    ]_vars

\* the label (10,100,80,15,'Name:') is paired with the text field
\* (100,95,200,25) at distance 10, while another valid field, farther away
\* but at less than 200, stays unused
C18_Witness ==
    /\ MatchingDone
    /\ \E i \in 1..Len(matched_pairs) :
          /\ matched_pairs[i].label.text = T_Name
          /\ matched_pairs[i].label.bbox = <<10, 100, 80, 15>>
          /\ matched_pairs[i].field.bbox = <<100, 95, 200, 25>>
          /\ matched_pairs[i].distance = Square(2 * 10)
          /\ \E g \in OpenFields(matched_pairs[i].label, used_fields) :
                LET d == _calculate_label_field_distance(matched_pairs[i].label,
                                                         AllFields[g])
                IN  matched_pairs[i].distance < d /\ d < 4 * 200 * 200

\* a comes before b in reading order
ReadingBefore(a, b) == Y(a) < Y(b) \/ (Y(a) = Y(b) /\ X(a) < X(b))

\* C19: the labels are handled in reading order (ascending y, then x), and
\* a label keeps the nearest valid field among those that the labels
\* before it in reading order left unused, whatever the labels after it
\* would prefer; a later label is paired with a field no earlier pair has.
\* The pairs are looked at when match_labels_to_fields returns them.
C19_ReadingOrderWins ==
    /\ pc = "labels" =>
          \A i, j \in 1..Len(label_candidates) :
              i < j => ~ReadingBefore(label_candidates[j], label_candidates[i])
    /\ pc = "refine" =>
          /\ \A i, j \in 1..Len(matched_pairs) :
                i < j => /\ ~ReadingBefore(matched_pairs[j].label, matched_pairs[i].label)
                         /\ matched_pairs[j].field.id # matched_pairs[i].field.id
          /\ \A i \in 1..Len(matched_pairs) :
                LET taken == { matched_pairs[k].field.id : k \in 1..(i - 1) }
                IN  \A g \in OpenFields(matched_pairs[i].label, taken) :
                        matched_pairs[i].distance
                          <= _calculate_label_field_distance(matched_pairs[i].label,
                                                             AllFields[g])

\* matching is over: a field went to a label although a label after it in
\* reading order (and before it in the input list) is nearer to that field,
\* and the later label is in no pair
C19_Witness ==
    /\ MatchingDone
    /\ \E i \in 1..Len(matched_pairs), k \in 1..Len(label_candidates) :
          /\ ReadingBefore(matched_pairs[i].label, label_candidates[k])
          /\ label_candidates[k].id < matched_pairs[i].label.id
          /\ _calculate_label_field_distance(label_candidates[k], matched_pairs[i].field)
                < matched_pairs[i].distance
          /\ label_candidates[k].id \notin PairedLabelIds

\* twice the center of a box, center = (x + width/2, y + height/2)
TwiceCenter(b) == <<2 * X(b) + Width(b), 2 * Y(b) + Height(b)>>

\* the distance d of the specification, as (4*d)^2
SpecifiedDistance(label, field) ==
    IF X2(label) <= X(field) /\ ~(Y2(label) < Y(field) \/ Y2(field) < Y(label))
    THEN Square(4 * (X(field) - X2(label))
                  + Abs(TwiceCenter(label)[2] - TwiceCenter(field)[2]))
    ELSE IF Y2(label) <= Y(field) /\ ~(X2(label) < X(field) \/ X2(field) < X(label))
    THEN Square(4 * (Y(field) - Y2(label))
                  + Abs(TwiceCenter(label)[1] - TwiceCenter(field)[1]))
    ELSE 4 * (Square(TwiceCenter(label)[1] - TwiceCenter(field)[1])
                + Square(TwiceCenter(label)[2] - TwiceCenter(field)[2]))

\* C20: the distance a pair carries is the specified d of its label and
\* field, with center = (x + width/2, y + height/2); the pair carries
\* (2*d)^2, so four times it is (4*d)^2.
C20_DistanceAsSpecified ==
    \A i \in 1..Len(matched_pairs) :
        4 * matched_pairs[i].distance
          = SpecifiedDistance(matched_pairs[i].label, matched_pairs[i].field)

(***************************************************************************)
(* Specification SpecPage: the stages of main.py from the OCR table on.    *)
(* run_ocr turns the rows into text boxes; match_labels_to_fields filters  *)
(* them (line 48), sorts the labels (line 57) and pairs them one label per *)
(* step; refine_boxes produces the records.  The detected fields are fixed.*)
(***************************************************************************)
MaxRows == 3

R_Colon == <<"T", "e", "l", ":">>
R_Parens == <<"(", "a", ")">>
R_Unbalanced == <<")", "a", "(">>
R_Long == <<"N", "a", "t", "i", "o", "n", "a", "l", "i", "t", "y">>
R_Plain == <<"O", "c", "c", "u", "p", "a", "t", "i", "o", "n">>
R_Noise == <<"P", "a", "g", "e", ":">>
R_Padded == <<" ", "D", "a", "t", "e", " ">>

\* text, conf, width, height of a row: label-like rows, a row below the
\* confidence threshold and one at it, rows of width 0 and of height 0
RowCandidates ==
    { [text |-> R_Colon, conf |-> 90, width |-> 80, height |-> 15],
      [text |-> R_Parens, conf |-> 90, width |-> 80, height |-> 15],
      [text |-> R_Unbalanced, conf |-> 90, width |-> 80, height |-> 15],
      [text |-> R_Long, conf |-> 90, width |-> 80, height |-> 15],
      [text |-> R_Plain, conf |-> 90, width |-> 80, height |-> 15],
      [text |-> R_Noise, conf |-> 90, width |-> 80, height |-> 15],
      [text |-> T_Name, conf |-> 20, width |-> 80, height |-> 15],
      [text |-> R_Padded, conf |-> 30, width |-> 80, height |-> 15],
      [text |-> T_Name, conf |-> 90, width |-> 0, height |-> 15],
      [text |-> T_Date, conf |-> 90, width |-> 80, height |-> 0] }

\* the rows come in no particular order: row i lies above row i - 1
RowTop(i) == 170 - 35 * i

Row(r, i) == [id |-> i, text |-> r.text, conf |-> r.conf,
              left |-> 10, top |-> RowTop(i), width |-> r.width, height |-> r.height]

\* what detect_text_fields returned for the page
PageTextFields ==
    << WithId([bbox |-> <<100, 95, 200, 25>>, field_type |-> "text", confidence |-> 80], 1),
       WithId([bbox |-> <<100, 130, 200, 25>>, field_type |-> "text", confidence |-> 80], 2) >>

InitPage ==
    /\ pc = "ocr"
    /\ image_shape \in PageShapes
    /\ \E n \in 0..MaxRows : \E rs \in [1..n -> RowCandidates] :
          ocr_data = [i \in 1..n |-> Row(rs[i], i)]
    /\ ocr_boxes = <<>>
    /\ text_fields = PageTextFields
    /\ checkboxes = <<>>
    /\ label_candidates = <<>>
    /\ next_label = 0
    /\ used_fields = {}
    /\ matched_pairs = <<>>
    /\ snapped = <<>>
    /\ refined_fields = <<>>
    /\ NoOverlap /\ NoDedup /\ NoClean /\ NoCli /\ NoSnap /\ NoServer

\* main.py line 69
RunOcr ==
    /\ pc = "ocr"
    /\ pc' = "filter"
    /\ ocr_boxes' = run_ocr(ocr_data, image_shape)
    /\ UNCHANGED <<ocr_data, text_fields, checkboxes, label_candidates, next_label,
                   used_fields, matched_pairs, refineVars>>

\* associate.py line 48
FilterLabelCandidates ==
    /\ pc = "filter"
    /\ pc' = "sort"
    /\ label_candidates' = filter_label_candidates(ocr_boxes)
    /\ UNCHANGED <<ocr_data, ocr_boxes, text_fields, checkboxes, next_label,
                   used_fields, matched_pairs, refineVars>>

\* associate.py lines 51-57
SortLabelCandidates ==
    /\ pc = "sort"
    /\ pc' = "labels"
    /\ label_candidates' = SortLabels(label_candidates)
    /\ next_label' = 1
    /\ used_fields' = {}
    /\ matched_pairs' = <<>>
    /\ UNCHANGED <<ocr_data, ocr_boxes, text_fields, checkboxes, refineVars>>

notPageVars == <<overlapVars, dedupVars, cleanVars, cliVars, snapVars, serverVars>>

NextPage ==
    \/ RunOcr /\ UNCHANGED notPageVars
    \/ FilterLabelCandidates /\ UNCHANGED notPageVars
    \/ SortLabelCandidates /\ UNCHANGED notPageVars
    \/ MatchLabel /\ UNCHANGED <<notPageVars, ocrVars>>
    \/ ReturnPairs /\ UNCHANGED <<notPageVars, ocrVars>>
    \/ RefineBoxes /\ UNCHANGED <<notPageVars, ocrVars>>

SpecPage == InitPage /\ [][NextPage]_vars

Rows == { ocr_data[i] : i \in 1..Len(ocr_data) }
Filtered == pc \notin {"ocr", "filter"}

\* a field that no pair uses although the box could have been paired with it
FreeFieldNear(box) ==
    \E f \in 1..Len(AllFields) :
        /\ AllFields[f].id \notin used_fields
        /\ _is_valid_pairing(box, AllFields[f])
        /\ _calculate_label_field_distance(box, AllFields[f]) < 4 * 200 * 200

Balanced(t) == \E i, j \in 1..Len(t) : i < j /\ t[i] = "(" /\ t[j] = ")"

ContainsNoise(box) == \E word \in NoiseWords : Contains(Lower(box.text), word)

PassesRejections(box) ==
    /\ box.confidence >= 30
    /\ Len(box.text) >= 3 /\ ~IsDigit(box.text)
    /\ ~ContainsNoise(box)

\* C12: a fragment that passes the rejection rules is in the output of the
\* label filter if and only if its text contains a label keyword, or a
\* colon, or a balanced parenthesis pair, or is longer than 10 characters.
C12_KeptIffLabelLike ==
    Filtered =>
        \A k \in 1..Len(ocr_boxes) :
            PassesRejections(ocr_boxes[k]) =>
                (ocr_boxes[k].id \in Ids(label_candidates)
                 <=> \/ \E word \in LabelWords : Contains(Lower(ocr_boxes[k].text), word)
                     \/ Contains(ocr_boxes[k].text, <<":">>)
                     \/ Balanced(ocr_boxes[k].text)
                     \/ Len(ocr_boxes[k].text) > 10)

Position(s, id) == CHOOSE k \in 1..Len(s) : s[k].id = id

\* C13: a fragment whose text contains a noise token is not in the output
\* of the label filter, whatever accept condition it meets, and the output
\* of the filter keeps the fragments in the order of its input.
C13_NoiseRejectedOrderKept ==
    /\ \A k \in 1..Len(ocr_boxes) :
          ContainsNoise(ocr_boxes[k]) => ocr_boxes[k].id \notin Ids(label_candidates)
    /\ pc = "sort" =>
          \A i, j \in 1..Len(label_candidates) :
              i < j => Position(ocr_boxes, label_candidates[i].id)
                         < Position(ocr_boxes, label_candidates[j].id)

\* the filter has run on a fragment with a noise token and a colon and
\* kept two other fragments
C13_Witness ==
    /\ pc = "sort"
    /\ Len(label_candidates) = 2
    /\ \E k \in 1..Len(ocr_boxes) :
          /\ ContainsNoise(ocr_boxes[k])
          /\ Contains(ocr_boxes[k].text, <<":">>)
          /\ k < Position(ocr_boxes, label_candidates[2].id)

Malformed(row) == row.width <= 0 \/ row.height <= 0

WellFormed(row, shape) ==
    /\ row.conf >= 30
    /\ \E i \in 1..Len(row.text) : row.text[i] # " "
    /\ 10 <= row.width /\ 10 * row.width <= 8 * shape[2]
    /\ 5 <= row.height /\ 10 * row.height <= shape[1]

MaxCliFields == 2

FieldNames == {"Name", "Date"}

PipelineStages == <<"preprocess_image", "run_ocr", "detect_text_fields",
                    "detect_checkboxes", "match_labels_to_fields", "refine_boxes">>

\* console.print(...)
Message(t, n) == [text |-> t, count |-> n]

\* the sublists of s, elements in order
RECURSIVE SubLists(_)
SubLists(s) ==
    IF s = <<>> THEN {<<>>}
    ELSE LET rest == SubLists(Tail(s))
         IN  rest \cup { <<s[1]>> \o r : r \in rest }

InitCli ==
    /\ pc = "validate_pdf"
    /\ pdf_exists \in BOOLEAN
    /\ docai_exists \in BOOLEAN
    /\ debug \in BOOLEAN
    /\ stages = <<>>
    /\ paired_fields = <<>>
    /\ cli_refined = <<>>
    /\ output_file = <<>>
    /\ console = <<>>
    /\ exit_status = <<>>
    /\ NoOverlap /\ NoDedup /\ NoClean /\ NoMatch /\ NoRefine /\ NoOcr /\ NoSnap /\ NoServer

\* lines 41-43 without the sys.exit(1)
CheckPdfNoExit ==
    /\ pc = "validate_pdf"
    /\ pc' = "validate_docai"
    /\ console' = IF pdf_exists THEN console
                  ELSE Append(console, Message("PDF file not found", 0))
    /\ UNCHANGED <<pdf_exists, docai_exists, debug, stages, paired_fields, cli_refined,
                   output_file, exit_status>>

\* lines 41-43
CheckPdf ==
    /\ pc = "validate_pdf"
    /\ IF ~pdf_exists
       THEN /\ console' = Append(console, Message("PDF file not found", 0))
            /\ exit_status' = <<1>>
            /\ pc' = "exited"
       ELSE /\ pc' = "validate_docai"
            /\ UNCHANGED <<console, exit_status>>
    /\ UNCHANGED <<pdf_exists, docai_exists, debug, stages, paired_fields, cli_refined,
                   output_file>>

\* lines 45-47
CheckDocai ==
    /\ pc = "validate_docai"
    /\ IF ~docai_exists
       THEN /\ console' = Append(console, Message("Document AI JSON not found", 0))
            /\ exit_status' = <<1>>
            /\ pc' = "exited"
       ELSE /\ pc' = "step1_load"
            /\ UNCHANGED <<console, exit_status>>
    /\ UNCHANGED <<pdf_exists, docai_exists, debug, stages, paired_fields, cli_refined,
                   output_file>>

\* lines 57-60: open and json.load return or raise
LoadDocai ==
    /\ pc = "step1_load"
    /\ pc' \in {"step2_preprocess", "except"}
    /\ UNCHANGED <<pdf_exists, docai_exists, debug, stages, paired_fields, cli_refined,
                   output_file, console, exit_status>>

\* a call of a stage function at position at, which returns (control goes
\* to next) or raises
CallStage(at, stage, next) ==
    /\ pc = at
    /\ stages' = Append(stages, stage)
    /\ pc' \in {next, "except"}
    /\ UNCHANGED <<pdf_exists, docai_exists, debug, output_file, console, exit_status>>

\* line 64
CallPreprocess ==
    /\ CallStage("step2_preprocess", "preprocess_image", "step3_ocr")
    /\ UNCHANGED <<paired_fields, cli_refined>>

\* line 69
CallRunOcr ==
    /\ CallStage("step3_ocr", "run_ocr", "step4_text_fields")
    /\ UNCHANGED <<paired_fields, cli_refined>>

\* line 74
CallDetectTextFields ==
    /\ CallStage("step4_text_fields", "detect_text_fields", "step4_checkboxes")
    /\ UNCHANGED <<paired_fields, cli_refined>>

\* line 75
CallDetectCheckboxes ==
    /\ CallStage("step4_checkboxes", "detect_checkboxes", "step5_match")
    /\ UNCHANGED <<paired_fields, cli_refined>>

\* lines 80-82
CallMatchLabels ==
    /\ CallStage("step5_match", "match_labels_to_fields", "step6_refine")
    /\ IF pc' = "except" THEN UNCHANGED paired_fields
       ELSE \E n \in 0..MaxCliFields : paired_fields' \in [1..n -> FieldNames]
    /\ UNCHANGED cli_refined

\* line 87
CallRefineBoxes ==
    /\ CallStage("step6_refine", "refine_boxes", "save")
    /\ IF pc' = "except" THEN UNCHANGED cli_refined
       ELSE cli_refined' \in SubLists(paired_fields)
    /\ UNCHANGED paired_fields

\* lines 91-93 with paired_fields dumped
SaveOutputPaired ==
    /\ pc = "save"
    /\ \/ pc' = "report" /\ output_file' = <<[complete |-> TRUE, content |-> paired_fields]>>
       \/ pc' = "except" /\ output_file' = output_file
       \/ pc' = "except" /\ output_file' = <<[complete |-> FALSE, content |-> <<>>]>>
    /\ UNCHANGED <<pdf_exists, docai_exists, debug, stages, paired_fields, cli_refined,
                   console, exit_status>>

\* lines 91-93: mkdir or open raise and leave no file, json.dump raises and
\* leaves an incomplete one, or the list is written
SaveOutput ==
    /\ pc = "save"
    /\ \/ pc' = "report" /\ output_file' = <<[complete |-> TRUE, content |-> cli_refined]>>
       \/ pc' = "except" /\ output_file' = output_file
       \/ pc' = "except" /\ output_file' = <<[complete |-> FALSE, content |-> <<>>]>>
    /\ UNCHANGED <<pdf_exists, docai_exists, debug, stages, paired_fields, cli_refined,
                   console, exit_status>>

\* lines 95-96, then main returns
ReportSuccess ==
    /\ pc = "report"
    /\ pc' = "exited"
    /\ console' = console \o <<Message("Successfully extracted", Len(cli_refined)),
                               Message("Output saved to", 0)>>
    /\ exit_status' = <<0>>
    /\ UNCHANGED <<pdf_exists, docai_exists, debug, stages, paired_fields, cli_refined,
                   output_file>>

\* lines 98-102 without the sys.exit(1): main returns
HandleExceptionNoExit ==
    /\ pc = "except"
    /\ pc' = "exited"
    /\ console' = console \o <<Message("Error during processing", 0)>>
                          \o (IF debug THEN <<Message("traceback", 0)>> ELSE <<>>)
    /\ exit_status' = <<0>>
    /\ UNCHANGED <<pdf_exists, docai_exists, debug, stages, paired_fields, cli_refined,
                   output_file>>

\* lines 98-103
HandleException ==
    /\ pc = "except"
    /\ pc' = "exited"
    /\ console' = console \o <<Message("Error during processing", 0)>>
                          \o (IF debug THEN <<Message("traceback", 0)>> ELSE <<>>)
    /\ exit_status' = <<1>>
    /\ UNCHANGED <<pdf_exists, docai_exists, debug, stages, paired_fields, cli_refined,
                   output_file>>

notCliVars == <<overlapVars, dedupVars, cleanVars, matchVars, refineVars, ocrVars,
                 snapVars, serverVars>>

NextCli ==
    \/ CheckPdf /\ UNCHANGED notCliVars
    \/ CheckDocai /\ UNCHANGED notCliVars
    \/ LoadDocai /\ UNCHANGED notCliVars
    \/ CallPreprocess /\ UNCHANGED notCliVars
    \/ CallRunOcr /\ UNCHANGED notCliVars
    \/ CallDetectTextFields /\ UNCHANGED notCliVars
    \/ CallDetectCheckboxes /\ UNCHANGED notCliVars
    \/ CallMatchLabels /\ UNCHANGED notCliVars
    \/ CallRefineBoxes /\ UNCHANGED notCliVars
    \/ SaveOutput /\ UNCHANGED notCliVars
    \/ ReportSuccess /\ UNCHANGED notCliVars
    \/ HandleException /\ UNCHANGED notCliVars

SpecCli == InitCli /\ [][NextCli]_vars

\* C16: when the PDF path does not exist main exits with status 1 after
\* printing 'PDF file not found'; otherwise, when the Document AI path does
\* not exist, with status 1 after 'Document AI JSON not found'; in both
\* cases no stage function is ever called and no output file is written.
C16_InputsValidatedFirst ==
    /\ (~pdf_exists \/ ~docai_exists) => stages = <<>> /\ output_file = <<>>
    /\ (pc = "exited" /\ ~pdf_exists) =>
          /\ exit_status = <<1>>
          /\ console = <<Message("PDF file not found", 0)>>
    /\ (pc = "exited" /\ pdf_exists /\ ~docai_exists) =>
          /\ exit_status = <<1>>
          /\ console = <<Message("Document AI JSON not found", 0)>>

\* main has exited on a missing Document AI file, the PDF being there
C16_Witness ==
    /\ pc = "exited"
    /\ pdf_exists /\ ~docai_exists
    /\ exit_status = <<1>>
    /\ stages = <<>>

\* s is the first Len(s) elements of t
IsPrefix(s, t) == Len(s) <= Len(t) /\ s = SubSeq(t, 1, Len(s))

\* C17: the stage functions are called once each in the order preprocess,
\* OCR, field detection, matching, refinement; the output file is written
\* only after refine_boxes returned and holds the list it returned; a run
\* that exits with status 0 called all of them, wrote that list and
\* reported its length.
C17_StagesInOrderThenOutput ==
    /\ IsPrefix(stages, PipelineStages)
    /\ output_file # <<>> =>
          /\ stages = PipelineStages
          /\ pc \in {"report", "except", "exited"}
          /\ output_file[1].complete => output_file[1].content = cli_refined
    /\ exit_status = <<0>> =>
          /\ stages = PipelineStages
          /\ output_file = <<[complete |-> TRUE, content |-> cli_refined]>>
          /\ console = <<Message("Successfully extracted", Len(cli_refined)),
                         Message("Output saved to", 0)>>

\* main exited with status 0 after refine_boxes returned a record for one
\* of two pairs
C17_Witness ==
    /\ pc = "exited"
    /\ exit_status = <<0>>
    /\ Len(paired_fields) = 2
    /\ Len(cli_refined) = 1
    /\ output_file[1].content = cli_refined

\* where main is while it loads the Document AI JSON or calls a stage
StagePositions == {"step1_load", "step2_preprocess", "step3_ocr", "step4_text_fields",
                   "step4_checkboxes", "step5_match", "step6_refine"}

\* C29: when loading the Document AI JSON or a stage function raises, no
\* output file exists and none is written afterwards, no stage function is
\* called afterwards, and main exits with status 1; the output file is
\* written only at the save step, after all six stage functions returned.
C29_StageFailureLeavesNoOutput ==
    [][/\ (pc \in StagePositions /\ pc' = "except") => output_file' = <<>>
       /\ pc \in {"except", "exited"} =>
              /\ stages' = stages
              /\ output_file' = output_file
              /\ pc' = "exited"
       /\ pc = "except" => exit_status' = <<1>>
       /\ output_file' # output_file => pc = "save" /\ stages = PipelineStages
    ]_vars

\* run_ocr raised: main exited with status 1 after two stage calls, with the
\* error message printed and no output file
C29_Witness ==
    /\ pc = "exited"
    /\ stages = <<"preprocess_image", "run_ocr">>
    /\ exit_status = <<1>>
    /\ console[1] = Message("Error during processing", 0)
    /\ output_file = <<>>


(***************************************************************************)
(* Specification SpecPairing: match_labels_to_fields on captions of 20, 21 *)
(* and 25 characters next to text fields and checkboxes, several of them   *)
(* at the same distance from a label, and on a label far from every field. *)
(***************************************************************************)
\* 20 characters, no checkbox keyword
P_Caption20 ==
    <<"D", "a", "t", "e", " ", "o", "f", " ", "b", "i", "r", "t", "h", " ",
       "(", "d", "/", "m", ")", ":">>

\* 21 characters, no checkbox keyword
P_Caption21 ==
    <<"D", "a", "t", "e", " ", "o", "f", " ", "b", "i", "r", "t", "h", " ",
       "(", "d", "/", "m", ")", " ", ":">>

\* 25 characters, with checkbox keywords
P_Keyword ==
    <<"C", "h", "e", "c", "k", " ", "i", "f", " ", "a", "p", "p", "l", "i",
       "c", "a", "b", "l", "e", " ", "h", "e", "r", "e", ":">>

\* TextBox(text, bbox, confidence)
PairingLabels ==
    { [text |-> P_Caption20, bbox |-> <<10, 100, 80, 15>>, confidence |-> 90],
      [text |-> P_Caption21, bbox |-> <<10, 100, 80, 15>>, confidence |-> 90],
      [text |-> P_Keyword, bbox |-> <<10, 100, 80, 15>>, confidence |-> 90],
      [text |-> T_Email, bbox |-> <<10, 400, 80, 15>>, confidence |-> 90] }

\* FieldBox(bbox, 'text', confidence): at 10, about 154 and about 172 from
\* the label box (10,100,80,15); at about 335, 304 and 262 from the label
\* box (10,400,80,15)
PairingTextFields ==
    { [bbox |-> <<100, 95, 200, 25>>, field_type |-> "text", confidence |-> 80],
      [bbox |-> <<100, 130, 200, 25>>, field_type |-> "text", confidence |-> 80],
      [bbox |-> <<100, 180, 200, 25>>, field_type |-> "text", confidence |-> 80] }

\* FieldBox(bbox, 'checkbox', confidence): both at 10 from the label box
\* (10,100,80,15)
PairingCheckboxes ==
    { [bbox |-> <<100, 101, 12, 12>>, field_type |-> "checkbox", confidence |-> 80],
      [bbox |-> <<100, 100, 14, 14>>, field_type |-> "checkbox", confidence |-> 80] }

InitPairing ==
    /\ pc = "match"
    /\ \E n \in 0..MaxLabels : \E ls \in [1..n -> PairingLabels] :
          ocr_boxes = [i \in 1..n |-> WithId(ls[i], i)]
    /\ \E nt \in 0..MaxFields : \E nc \in 0..(MaxFields - nt) :
          \E ts \in [1..nt -> PairingTextFields], cs \in [1..nc -> PairingCheckboxes] :
             /\ text_fields = [i \in 1..nt |-> WithId(ts[i], i)]
             /\ checkboxes = [i \in 1..nc |-> WithId(cs[i], nt + i)]
    /\ label_candidates = <<>>
    /\ next_label = 0
    /\ used_fields = {}
    /\ matched_pairs = <<>>
    /\ NoOverlap /\ NoDedup /\ NoClean /\ NoRefine /\ NoOcr /\ NoCli /\ NoSnap /\ NoServer

NextPairing ==
    \/ StartMatching /\ UNCHANGED notPipelineVars
    \/ MatchLabel /\ UNCHANGED notPipelineVars
    \/ ReturnPairs /\ UNCHANGED notPipelineVars

SpecPairing == InitPairing /\ [][NextPairing]_vars

\* the label text is longer than 20 characters and holds no selection keyword
LongWithoutKeyword(label) ==
    /\ Len(label.text) > 20
    /\ \A keyword \in CheckboxWords : ~Contains(Lower(label.text), keyword)

\* C21: no pair joins a checkbox to a label whose text is longer than 20
\* characters and holds none of the selection keywords.
C21_LongCaptionSkipsCheckboxes ==
    \A i \in 1..Len(matched_pairs) :
        matched_pairs[i].field.field_type = "checkbox"
            => ~LongWithoutKeyword(matched_pairs[i].label)

\* matching is over: a label of 21 characters without keyword is paired with
\* a text field although a checkbox nearer to it was still unused, and a
\* label of 20 characters without keyword is paired with a checkbox
C21_Witness ==
    /\ pc = "refine"
    /\ \E i \in 1..Len(matched_pairs), c \in 1..Len(checkboxes) :
          /\ LongWithoutKeyword(matched_pairs[i].label)
          /\ matched_pairs[i].field.field_type = "text"
          /\ \A k \in 1..(i - 1) : matched_pairs[k].field.id # checkboxes[c].id
          /\ _calculate_label_field_distance(matched_pairs[i].label, checkboxes[c])
                < matched_pairs[i].distance
    /\ \E j \in 1..Len(matched_pairs) :
          /\ Len(matched_pairs[j].label.text) = 20
          /\ \A keyword \in CheckboxWords :
                ~Contains(Lower(matched_pairs[j].label.text), keyword)
          /\ matched_pairs[j].field.field_type = "checkbox"

\* the checkbox rule alone: the validity gate without its "d > 300" rejection
ValidWithoutGate(label, field) ==
    ~(/\ field.field_type = "checkbox"
      /\ ~\E keyword \in CheckboxWords : Contains(Lower(label.text), keyword)
      /\ Len(label.text) > 20)

\* the nearest unused field the checkbox rule allows, the first of them at
\* equal distance
RECURSIVE NearestWithoutGate(_, _, _, _, _)
NearestWithoutGate(label, all_fields, used, i, best) ==
    IF i > Len(all_fields) THEN best
    ELSE LET d == _calculate_label_field_distance(label, all_fields[i])
         IN  IF /\ all_fields[i].id \notin used
                /\ ValidWithoutGate(label, all_fields[i])
                /\ (best.field = NoField \/ d < best.distance)
             THEN NearestWithoutGate(label, all_fields, used, i + 1,
                                     [field |-> all_fields[i], distance |-> d])
             ELSE NearestWithoutGate(label, all_fields, used, i + 1, best)

\* the pairs of a matcher that keeps only the checkbox rule and the d < 200
\* commit cutoff
RECURSIVE PairsWithoutGate(_, _, _, _, _)
PairsWithoutGate(labels, all_fields, i, used, pairs) ==
    IF i > Len(labels) THEN pairs
    ELSE LET best == NearestWithoutGate(labels[i], all_fields, used, 1,
                                        [field |-> NoField, distance |-> 0])
         IN  IF best.field # NoField /\ best.distance < 4 * 200 * 200
             THEN PairsWithoutGate(labels, all_fields, i + 1, used \cup {best.field.id},
                                   Append(pairs, [label |-> labels[i],
                                                  field |-> best.field,
                                                  distance |-> best.distance]))
             ELSE PairsWithoutGate(labels, all_fields, i + 1, used, pairs)

\* C22: match_labels_to_fields returns exactly the pairs of the matcher
\* without the d > 300 rejection: the 300 gate changes no result.
C22_GateOnlyPrunes ==
    pc = "refine" =>
        matched_pairs = PairsWithoutGate(SortLabels(filter_label_candidates(ocr_boxes)),
                                         AllFields, 1, {}, <<>>)

\* matching returned a pair and left a label unpaired for which an unused
\* field allowed by the checkbox rule lies farther than 300 (the gate
\* rejected it)
C22_Witness ==
    /\ pc = "refine"
    /\ matched_pairs # <<>>
    /\ \E k \in 1..Len(label_candidates), f \in 1..Len(AllFields) :
          /\ label_candidates[k].id \notin PairedLabelIds
          /\ AllFields[f].id \notin used_fields
          /\ ValidWithoutGate(label_candidates[k], AllFields[f])
          /\ _calculate_label_field_distance(label_candidates[k], AllFields[f])
                > 4 * 300 * 300

\* the index in AllFields of the field with identity id
FieldIndex(id) == CHOOSE f \in 1..Len(AllFields) : AllFields[f].id = id

\* C27: when the loop appends a pair for a label, no unused valid field
\* that comes before the pair's field in text_fields + checkboxes is as near
\* to the label as the pair's field, and no unused valid field at all is
\* nearer: of several nearest fields the first in the combined list is taken.
C27_FirstOfNearestWins ==
    [][(pc = "labels" /\ next_label <= Len(label_candidates)
        /\ Len(matched_pairs') = Len(matched_pairs) + 1) =>
         LET L == label_candidates[next_label]
             pair == matched_pairs'[Len(matched_pairs')]
             taken == FieldIndex(pair.field.id)
         IN  \A g \in OpenFields(L, used_fields) :
                 LET d == _calculate_label_field_distance(L, AllFields[g])
                 IN  /\ pair.distance <= d
                     /\ g < taken => pair.distance < d
    ]_vars

\* matching is over: a label was paired with a text field while a checkbox
\* later in the combined list, valid for the label and never used, lies at
\* exactly the same distance
C27_Witness ==
    /\ pc = "refine"
    /\ \E i \in 1..Len(matched_pairs), g \in 1..Len(AllFields) :
          /\ matched_pairs[i].field.field_type = "text"
          /\ FieldIndex(matched_pairs[i].field.id) < g
          /\ AllFields[g].field_type = "checkbox"
          /\ AllFields[g].id \notin used_fields
          /\ _is_valid_pairing(matched_pairs[i].label, AllFields[g])
          /\ _calculate_label_field_distance(matched_pairs[i].label, AllFields[g])
                = matched_pairs[i].distance

(***************************************************************************)
(* Specification SpecSnap: _snap_to_content on one field, whatever contour *)
(* the snapping step selects in the field's region.                        *)
(***************************************************************************)
MaxLineHeight == 8

\* FieldBox(bbox, field_type, confidence): inside the page, at its top edge,
\* reaching over its right edge, outside it
SnapFields ==
    { [bbox |-> <<x, y, w, h>>, field_type |-> t, confidence |-> 80] :
        x \in {100, 500, 600}, y \in {0, 95}, w \in {40, 200}, h \in {12, 30},
        t \in {"text", "checkbox"} }

\* cv2.boundingRect of the selected contour, relative to the region: inside
\* a region of shape roi = <<height, width>>, up to MaxLineHeight high.  The
\* opening of line 85 with a (w // 4, 1) kernel leaves no text-field contour
\* narrower than w // 4.
ContourRects(field, roi) ==
    LET narrowest == IF field.field_type = "text" THEN Max(1, Width(field) \div 4) ELSE 1
    IN  { c \in { <<line_x, line_y, line_w, line_h>> :
                    line_x \in {0, 10}, line_y \in 0..(roi[1] - 1),
                    line_w \in {narrowest, roi[2] - 10, roi[2]},
                    line_h \in 1..MaxLineHeight } :
            /\ c[3] >= narrowest
            /\ c[1] + c[3] <= roi[2]
            /\ c[2] + c[4] <= roi[1] }

InitSnap ==
    /\ pc = "snap"
    /\ image_shape \in PageShapes
    /\ snap_field \in SnapFields
    /\ roi_content \in {NoContour} \cup ContourRects(snap_field,
                                                     RoiShape(snap_field, image_shape))
    /\ refined_bbox = <<>>
    /\ snapped = <<>>
    /\ refined_fields = <<>>
    /\ NoOverlap /\ NoDedup /\ NoClean /\ NoMatch /\ NoOcr /\ NoCli /\ NoServer

\* refine.py line 32
SnapToContent ==
    /\ pc = "snap"
    /\ pc' = "snapped"
    /\ refined_bbox' = _snap_to_content(snap_field, image_shape, roi_content)
    /\ UNCHANGED <<snap_field, roi_content>>

notSnapVars == <<overlapVars, dedupVars, cleanVars, matchVars, refineVars, ocrVars,
                 cliVars, serverVars>>

NextSnap == SnapToContent /\ UNCHANGED notSnapVars

SpecSnap == InitSnap /\ [][NextSnap]_vars

\* a line feature was found in the region of the text field at hand
LineFound ==
    /\ pc = "snapped"
    /\ snap_field.field_type = "text"
    /\ roi_content # NoContour

\* the line feature in page coordinates, <<line_x, line_y, line_w, line_h>>
PageLine == <<X(snap_field) + roi_content[1], Y(snap_field) + roi_content[2],
              roi_content[3], roi_content[4]>>

\* C25 as stated: with a line feature found, the refined bbox of a text
\* field is [line_x, line_bottom - max(3*line_h, 20), line_x + line_w,
\* line_bottom]; with none found it is the approximate box.
C25_SnapAsStated ==
    (pc = "snapped" /\ snap_field.field_type = "text") =>
        IF roi_content = NoContour
        THEN refined_bbox = <<X(snap_field), Y(snap_field), X2(snap_field), Y2(snap_field)>>
        ELSE LET line_bottom == PageLine[2] + PageLine[4]
             IN  refined_bbox = <<PageLine[1],
                                  line_bottom - Max(3 * PageLine[4], 20),
                                  PageLine[1] + PageLine[3],
                                  line_bottom>>

\* C25 amended: with a line feature found, the refined bbox of a text field
\* is [line_x, max(y, line_bottom - max(3*line_h, 20)), line_x + line_w,
\* line_bottom], y being the top of the approximate box; with none found it
\* is the approximate box.
C25_SnapClamped ==
    (pc = "snapped" /\ snap_field.field_type = "text") =>
        IF roi_content = NoContour
        THEN refined_bbox = <<X(snap_field), Y(snap_field), X2(snap_field), Y2(snap_field)>>
        ELSE LET line_bottom == PageLine[2] + PageLine[4]
             IN  refined_bbox = <<PageLine[1],
                                  Max(Y(snap_field), line_bottom - Max(3 * PageLine[4], 20)),
                                  PageLine[1] + PageLine[3],
                                  line_bottom>>

\* a line 7 high whose bottom lies less than 21 below the top of the
\* approximate box: the refined box starts at the top of the approximate box
C25_Witness ==
    /\ LineFound
    /\ PageLine[4] = 7
    /\ PageLine[2] + PageLine[4] - 21 < Y(snap_field)
    /\ refined_bbox[2] = Y(snap_field)
    /\ refined_bbox[4] = PageLine[2] + PageLine[4]

\* C28: with a line feature found in its region, the refined bbox
\* [x1, y1, x2, y2] of a text field (x, y, w, h) has x <= x1 < x2 <= x + w
\* and y <= y1 < y2 <= y + h.
C28_SnapNeverEnlarges ==
    LineFound =>
        /\ X(snap_field) <= refined_bbox[1]
        /\ refined_bbox[1] < refined_bbox[3]
        /\ refined_bbox[3] <= X2(snap_field)
        /\ Y(snap_field) <= refined_bbox[2]
        /\ refined_bbox[2] < refined_bbox[4]
        /\ refined_bbox[4] <= Y2(snap_field)

\* a line 2 high at the top of the region of a field that reaches over the
\* right page edge: the refined box is 2 high and ends at the page edge
C28_Witness ==
    /\ LineFound
    /\ X2(snap_field) > image_shape[2]
    /\ refined_bbox[3] = image_shape[2]
    /\ refined_bbox[2] = Y(snap_field)
    /\ refined_bbox[4] = Y(snap_field) + 2

(***************************************************************************)
(* Specification SpecRecords: a page with three text fields of which the   *)
(* first and the second, and the second and the third, overlap above 0.5;  *)
(* match_labels_to_fields pairs them with labels above, left and right of  *)
(* them, and refine_boxes produces the records.                            *)
(***************************************************************************)
MaxRecords == 3

\* TextBox(text, bbox, confidence): above the fields, left of them (read
\* with two confidences), right of them
RecordLabels ==
    { [text |-> T_Name, bbox |-> <<150, 70, 80, 15>>, confidence |-> 95],
      [text |-> T_Date, bbox |-> <<10, 100, 80, 15>>, confidence |-> 90],
      [text |-> T_Date, bbox |-> <<10, 100, 80, 15>>, confidence |-> 60],
      [text |-> T_Email, bbox |-> <<310, 105, 80, 15>>, confidence |-> 80] }

\* what detect_text_fields returned: overlap ratios 2/3, 2/3 and 3/7, all
\* at most the 0.7 of its own deduplication
RecordTextFields ==
    << WithId([bbox |-> <<100, 95, 200, 25>>, field_type |-> "text", confidence |-> 80], 1),
       WithId([bbox |-> <<100, 100, 200, 25>>, field_type |-> "text", confidence |-> 80], 2),
       WithId([bbox |-> <<100, 105, 200, 25>>, field_type |-> "text", confidence |-> 80], 3) >>

InitRecords ==
    /\ pc = "match"
    /\ \E n \in 0..MaxRecords : \E ls \in [1..n -> RecordLabels] :
          ocr_boxes = [i \in 1..n |-> WithId(ls[i], i)]
    /\ text_fields = RecordTextFields
    /\ checkboxes = <<>>
    /\ image_shape \in PageShapes
    /\ label_candidates = <<>>
    /\ next_label = 0
    /\ used_fields = {}
    /\ matched_pairs = <<>>
    /\ snapped = <<>>
    /\ refined_fields = <<>>
    /\ NoOverlap /\ NoDedup /\ NoClean /\ NoOcr /\ NoCli /\ NoSnap /\ NoServer

NextRecords ==
    \/ StartMatching /\ UNCHANGED notPipelineVars
    \/ MatchLabel /\ UNCHANGED notPipelineVars
    \/ ReturnPairs /\ UNCHANGED notPipelineVars
    \/ RefineBoxes /\ UNCHANGED notPipelineVars

SpecRecords == InitRecords /\ [][NextRecords]_vars

\* the pairs whose refined bbox passes _validate_field: the validated records
Validated == { i \in 1..Len(matched_pairs) : _validate_field(snapped[i], image_shape) }

Kept == { refined_fields[k].id : k \in 1..Len(refined_fields) }

RecordConfidence(i) == matched_pairs[i].label.confidence

OverlapAboveHalf(p, q) == RatioAbove(IoU(p, q), 5)

\* the returned list is in reading order and no two of its records overlap
\* above 0.5
SortedAndDisjoint ==
    /\ \A k, l \in 1..Len(refined_fields) :
          k < l => \/ refined_fields[k].bbox[2] < refined_fields[l].bbox[2]
                   \/ /\ refined_fields[k].bbox[2] = refined_fields[l].bbox[2]
                      /\ refined_fields[k].bbox[1] <= refined_fields[l].bbox[1]
    /\ \A k, l \in 1..Len(refined_fields) :
          k # l => ~OverlapAboveHalf(refined_fields[k].bbox, refined_fields[l].bbox)

\* C26 as stated: the list refine_boxes returns is in reading order, no two
\* of its records overlap above 0.5, and of two validated records that
\* overlap above 0.5 the one with the higher confidence is the one kept.
C26_HigherConfidenceKept ==
    pc = "done" =>
        /\ SortedAndDisjoint
        /\ \A i, j \in Validated :
              (OverlapAboveHalf(snapped[i], snapped[j])
                 /\ RecordConfidence(i) > RecordConfidence(j))
              => i \in Kept /\ j \notin Kept

\* C26 amended: the list is in reading order, no two of its records overlap
\* above 0.5, a validated record is left out only if a kept record of at
\* least its confidence overlaps it above 0.5, and of two validated records
\* that overlap above 0.5 and overlap no third one above 0.5 the one with
\* the higher confidence is the one kept.
C26_DroppedForKeptRecord ==
    pc = "done" =>
        /\ SortedAndDisjoint
        /\ Kept \subseteq Validated
        /\ \A i \in Validated \ Kept :
              \E k \in Kept : /\ RecordConfidence(k) >= RecordConfidence(i)
                              /\ OverlapAboveHalf(snapped[i], snapped[k])
        /\ \A i, j \in Validated :
              (/\ OverlapAboveHalf(snapped[i], snapped[j])
               /\ RecordConfidence(i) > RecordConfidence(j)
               /\ \A k \in Validated \ {i, j} :
                     /\ ~OverlapAboveHalf(snapped[i], snapped[k])
                     /\ ~OverlapAboveHalf(snapped[j], snapped[k]))
              => i \in Kept /\ j \notin Kept

\* three validated records of confidence 0.95, 0.9 and 0.8: the second
\* overlaps the first and the third above 0.5 and is left out, the third
\* does not overlap the first above 0.5 and is kept
C26_Witness ==
    /\ pc = "done"
    /\ Validated = {1, 2, 3}
    /\ RecordConfidence(1) = 95 /\ RecordConfidence(2) = 90 /\ RecordConfidence(3) = 80
    /\ OverlapAboveHalf(snapped[1], snapped[2])
    /\ OverlapAboveHalf(snapped[2], snapped[3])
    /\ ~OverlapAboveHalf(snapped[1], snapped[3])
    /\ Kept = {1, 3}

(***************************************************************************)
(* Specification SpecServer: one request to /process or /process_pdf       *)
(* (server.py).  upload says what the request holds and what handling it   *)
(* meets: which files are present and named, what the Document AI upload   *)
(* is (bytes that are not UTF-8, text that is not JSON, JSON without the   *)
(* expected keys, a valid document), and whether the processing function   *)
(* raises.  pending is what leaves the inner try block: a return with a    *)
(* status, or an exception.                                                *)
(***************************************************************************)
Endpoints == {"/process", "/process_pdf"}

DocaiKinds == {"undecodable", "not_json", "wrong_structure", "valid"}

Uploads ==
    [ has_pdf : BOOLEAN, has_docai : BOOLEAN, pdf_named : BOOLEAN, docai_named : BOOLEAN,
      docai : DocaiKinds, processing_raises : BOOLEAN ]

InitServer ==
    /\ pc = "check_files"
    /\ endpoint \in Endpoints
    /\ upload \in Uploads
    /\ temp_files = {}
    /\ pending = <<>>
    /\ response = <<>>
    /\ NoOverlap /\ NoDedup /\ NoClean /\ NoMatch /\ NoRefine /\ NoOcr /\ NoCli /\ NoSnap

\* lines 564-565 and 616-617
CheckRequestFiles ==
    /\ pc = "check_files"
    /\ LET missing == IF endpoint = "/process"
                      THEN ~upload.has_pdf \/ ~upload.has_docai
                      ELSE ~upload.has_pdf
       IN  IF missing THEN pc' = "returned" /\ response' = <<400>>
           ELSE pc' = "check_names" /\ UNCHANGED response
    /\ UNCHANGED <<endpoint, upload, temp_files, pending>>

\* lines 571-572 and 622-623
CheckFilenames ==
    /\ pc = "check_names"
    /\ LET unnamed == IF endpoint = "/process"
                      THEN ~upload.pdf_named \/ ~upload.docai_named
                      ELSE ~upload.pdf_named
       IN  IF unnamed THEN pc' = "returned" /\ response' = <<400>>
           ELSE pc' = "save_pdf" /\ UNCHANGED response
    /\ UNCHANGED <<endpoint, upload, temp_files, pending>>

\* lines 575-577 and 626-628: NamedTemporaryFile(delete=False) creates the
\* file and pdf_file.save writes it
SavePdfUpload ==
    /\ pc = "save_pdf"
    /\ temp_files' = temp_files \cup {"pdf_temp"}
    /\ pc' = IF endpoint = "/process" THEN "save_docai" ELSE "process"
    /\ UNCHANGED <<endpoint, upload, pending, response>>

\* lines 579-583: the second temporary file is created, then the upload is
\* read and decoded inside the with block, before the inner try
SaveDocaiUpload ==
    /\ pc = "save_docai"
    /\ temp_files' = temp_files \cup {"docai_temp"}
    /\ pc' = IF upload.docai = "undecodable" THEN "except" ELSE "parse_docai"
    /\ UNCHANGED <<endpoint, upload, pending, response>>

\* line 587, inside the inner try
ParseDocai ==
    /\ pc = "parse_docai"
    /\ IF upload.docai = "not_json"
       THEN pc' = "finally" /\ pending' = [kind |-> "raise", status |-> 500]
       ELSE pc' = "check_structure" /\ UNCHANGED pending
    /\ UNCHANGED <<endpoint, upload, temp_files, response>>

\* lines 590-591
CheckDocaiStructure ==
    /\ pc = "check_structure"
    /\ IF upload.docai = "wrong_structure"
       THEN pc' = "finally" /\ pending' = [kind |-> "return", status |-> 400]
       ELSE pc' = "process" /\ UNCHANGED pending
    /\ UNCHANGED <<endpoint, upload, temp_files, response>>

\* lines 594-596 and 631-633: the processing function returns or raises
ProcessUpload ==
    /\ pc = "process"
    /\ pc' = "finally"
    /\ pending' = IF upload.processing_raises THEN [kind |-> "raise", status |-> 500]
                  ELSE [kind |-> "return", status |-> 200]
    /\ UNCHANGED <<endpoint, upload, temp_files, response>>

\* lines 598-604 and 635-640: the finally block unlinks the temporary
\* files, then the return or the exception of the try block goes on
CleanUp ==
    /\ pc = "finally"
    /\ temp_files' = temp_files \ (IF endpoint = "/process"
                                   THEN {"pdf_temp", "docai_temp"} ELSE {"pdf_temp"})
    /\ IF pending.kind = "raise"
       THEN pc' = "except" /\ UNCHANGED response
       ELSE pc' = "returned" /\ response' = <<pending.status>>
    /\ UNCHANGED <<endpoint, upload, pending>>

\* lines 606-608 and 642-644
HandleRequestException ==
    /\ pc = "except"
    /\ pc' = "returned"
    /\ response' = <<500>>
    /\ UNCHANGED <<endpoint, upload, temp_files, pending>>

notServerVars == <<overlapVars, dedupVars, cleanVars, matchVars, refineVars, ocrVars,
                   cliVars, snapVars>>

NextServer ==
    \/ CheckRequestFiles /\ UNCHANGED notServerVars
    \/ CheckFilenames /\ UNCHANGED notServerVars
    \/ SavePdfUpload /\ UNCHANGED notServerVars
    \/ SaveDocaiUpload /\ UNCHANGED notServerVars
    \/ ParseDocai /\ UNCHANGED notServerVars
    \/ CheckDocaiStructure /\ UNCHANGED notServerVars
    \/ ProcessUpload /\ UNCHANGED notServerVars
    \/ CleanUp /\ UNCHANGED notServerVars
    \/ HandleRequestException /\ UNCHANGED notServerVars

SpecServer == InitServer /\ [][NextServer]_vars

\* C30: when the response of a request to /process or /process_pdf is
\* returned, no temporary file created while handling it exists any more.
C30_TempFilesDeleted == pc = "returned" => temp_files = {}

=============================================================================
